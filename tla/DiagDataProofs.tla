---------------------------- MODULE DiagDataProofs ----------------------------
(***************************************************************************)
(* What read of a path, get and put have of a file when they return,       *)
(* whatever is on the line before them and whatever goes wrong on it: each *)
(* of their steps leaves the line in step, or behind by so much that the   *)
(* method does not return.  And what readDir has of the tree: what it has  *)
(* had and what it still has to go through make up what is to be listed.   *)
(***************************************************************************)
EXTENDS DiagProofs, FiniteSetTheorems

----------------------------------------------------------------------------
(* Numbers and sequences.                                                   *)

LEMMA MinIs ==
  ASSUME NEW a \in Int, NEW b \in Int
  PROVE  Min({a, b}) = IF a <= b THEN a ELSE b
BY DEF Min

(* A part of a sequence, and its elements. *)
LEMMA PartIs ==
  ASSUME NEW S, NEW d \in Seq(S), NEW m \in Nat, NEW n \in 0 .. Len(d)
  PROVE  LET p == SubSeq(d, m + 1, n)
         IN  /\ p \in Seq(S)
             /\ Len(p) = IF m <= n THEN n - m ELSE 0
             /\ \A i \in 1 .. Len(p) : p[i] = d[m + i]
<1>1. \A i \in m + 1 .. n : d[i] \in S
  OBVIOUS
<1> QED
  BY <1>1

LEMMA JoinIs ==
  ASSUME NEW S, NEW a \in Seq(S), NEW b \in Seq(S), NEW c, c = a \o b
  PROVE  /\ c \in Seq(S)
         /\ Len(c) = Len(a) + Len(b)
         /\ \A i \in 1 .. Len(a) : c[i] = a[i]
         /\ \A i \in 1 .. Len(b) : c[Len(a) + i] = b[i]
<1>1. /\ c \in Seq(S)
      /\ Len(c) = Len(a) + Len(b)
      /\ \A i \in 1 .. Len(a) + Len(b) :
           c[i] = IF i <= Len(a) THEN a[i] ELSE b[i - Len(a)]
  BY ConcatProperties
<1>2. Len(a) \in Nat /\ Len(b) \in Nat
  OBVIOUS
<1>3. \A i \in 1 .. Len(a) : c[i] = a[i]
  BY <1>1, <1>2
<1>4. ASSUME NEW i \in 1 .. Len(b)
      PROVE  c[Len(a) + i] = b[i]
  <2>1. /\ Len(a) + i \in 1 .. Len(a) + Len(b)
        /\ ~ (Len(a) + i <= Len(a)) /\ (Len(a) + i) - Len(a) = i
    BY <1>2
  <2> QED
    BY <1>1, <2>1
<1> QED
  BY <1>1, <1>3, <1>4

LEMMA JoinedParts ==
  ASSUME NEW S, NEW d \in Seq(S), NEW m \in 0 .. Len(d), NEW n \in m .. Len(d)
  PROVE  SubSeq(d, 1, m) \o SubSeq(d, m + 1, n) = SubSeq(d, 1, n)
<1>0. n \in Nat /\ m \in Nat /\ n \in 0 .. Len(d)
  OBVIOUS
<1>1. PICK a : a = SubSeq(d, 1, m)
  OBVIOUS
<1>2. PICK b : b = SubSeq(d, m + 1, n)
  OBVIOUS
<1>3. PICK c : c = SubSeq(d, 1, n)
  OBVIOUS
<1>4. PICK e : e = a \o b
  OBVIOUS
<1>5. a \in Seq(S) /\ Len(a) = m /\ \A i \in 1 .. m : a[i] = d[i]
  BY <1>0, <1>1
<1>6. b \in Seq(S) /\ Len(b) = n - m /\ \A i \in 1 .. n - m : b[i] = d[m + i]
  BY <1>0, <1>2, PartIs
<1>7. c \in Seq(S) /\ Len(c) = n /\ \A i \in 1 .. n : c[i] = d[i]
  BY <1>0, <1>3
<1>8. /\ e \in Seq(S) /\ Len(e) = Len(a) + Len(b)
      /\ \A i \in 1 .. Len(a) : e[i] = a[i]
      /\ \A i \in 1 .. Len(b) : e[Len(a) + i] = b[i]
  <2>1. a \in Seq(S) /\ b \in Seq(S)
    BY <1>5, <1>6
  <2> QED
    BY <1>4, <2>1, JoinIs
<1>9. Len(e) = n
  BY <1>0, <1>5, <1>6, <1>8
<1>10. ASSUME NEW i \in 1 .. n
       PROVE  e[i] = c[i]
  <2>1. CASE i \in 1 .. m
    BY <1>0, <1>5, <1>7, <1>8, <2>1
  <2>2. CASE i \in m + 1 .. n
    <3>1. i - m \in 1 .. n - m /\ m + (i - m) = i
      BY <1>0, <2>2
    <3>2. e[m + (i - m)] = b[i - m] /\ b[i - m] = d[m + (i - m)]
      BY <1>5, <1>6, <1>8, <3>1
    <3> QED
      BY <1>7, <3>1, <3>2
  <2> QED
    BY <1>0, <2>1, <2>2
<1>11. e = c
  BY <1>7, <1>8, <1>9, <1>10, SeqEqual
<1> QED
  BY <1>1, <1>2, <1>3, <1>4, <1>11

LEMMA FirstPart ==
  ASSUME NEW S, NEW d \in Seq(S), NEW n \in 0 .. Len(d)
  PROVE  LET p == SubSeq(d, 1, n)
         IN  p \in Seq(S) /\ Len(p) = n /\ \A i \in 1 .. n : p[i] = d[i]
OBVIOUS

LEMMA WholePart ==
  ASSUME NEW S, NEW d \in Seq(S)
  PROVE  SubSeq(d, 1, Len(d)) = d /\ SubSeq(d, 1, 0) = <<>>
OBVIOUS

(* A file that is written over from some place in it. *)
LEMMA OverlaidIs ==
  ASSUME NEW S, NEW old \in Seq(S), NEW new \in Seq(S), NEW k \in 0 .. Len(old),
         NEW d, d = Overlaid(old, new, k), NEW m, m = k + Len(new)
  PROVE  /\ d \in Seq(S)
         /\ Len(d) = IF m <= Len(old) THEN Len(old) ELSE m
         /\ \A i \in 1 .. k : d[i] = old[i]
         /\ \A i \in 1 .. Len(new) : d[k + i] = new[i]
         /\ \A i \in m + 1 .. Len(old) : d[i] = old[i]
<1>0. k \in Nat /\ m \in Nat /\ Len(old) \in Nat /\ Len(new) \in Nat
  OBVIOUS
<1>1. PICK a : a = SubSeq(old, 1, k)
  OBVIOUS
<1>2. PICK b : b = SubSeq(old, m + 1, Len(old))
  OBVIOUS
<1>3. PICK e : e = a \o new
  OBVIOUS
<1>4. d = e \o b
  BY <1>1, <1>2, <1>3 DEF Overlaid
<1>5. a \in Seq(S) /\ Len(a) = k /\ \A i \in 1 .. k : a[i] = old[i]
  BY <1>0, <1>1
<1>6. /\ b \in Seq(S)
      /\ Len(b) = IF m <= Len(old) THEN Len(old) - m ELSE 0
      /\ \A i \in 1 .. Len(b) : b[i] = old[m + i]
  BY <1>0, <1>2, PartIs
<1>7. /\ e \in Seq(S) /\ Len(e) = Len(a) + Len(new)
      /\ \A i \in 1 .. Len(a) : e[i] = a[i]
      /\ \A i \in 1 .. Len(new) : e[Len(a) + i] = new[i]
  BY <1>3, <1>5, JoinIs
<1>8. /\ d \in Seq(S) /\ Len(d) = Len(e) + Len(b)
      /\ \A i \in 1 .. Len(e) : d[i] = e[i]
      /\ \A i \in 1 .. Len(b) : d[Len(e) + i] = b[i]
  <2>1. e \in Seq(S) /\ b \in Seq(S)
    BY <1>6, <1>7
  <2> QED
    BY <1>4, <2>1, JoinIs
<1>9. Len(e) = m
  BY <1>5, <1>7
<1>10. Len(d) = IF m <= Len(old) THEN Len(old) ELSE m
  <2>1. Len(d) = m + Len(b) /\ Len(b) = IF m <= Len(old) THEN Len(old) - m ELSE 0
    BY <1>6, <1>8, <1>9
  <2>2. CASE m <= Len(old)
    <3>1. Len(d) = m + (Len(old) - m)
      BY <2>1, <2>2
    <3> QED
      BY <1>0, <2>2, <3>1
  <2>3. CASE ~ (m <= Len(old))
    <3>1. Len(d) = m + 0
      BY <2>1, <2>3
    <3> QED
      BY <1>0, <2>3, <3>1
  <2> QED
    BY <2>2, <2>3
<1>11. \A i \in 1 .. k : d[i] = old[i]
  BY <1>0, <1>5, <1>7, <1>8, <1>9
<1>12. \A i \in 1 .. Len(new) : d[k + i] = new[i]
  BY <1>0, <1>5, <1>7, <1>8, <1>9
<1>13. ASSUME NEW i \in m + 1 .. Len(old)
       PROVE  d[i] = old[i]
  <2>1. i - m \in 1 .. Len(b) /\ m + (i - m) = i
    BY <1>0, <1>6
  <2>2. d[m + (i - m)] = b[i - m] /\ b[i - m] = old[m + (i - m)]
    BY <1>6, <1>8, <1>9, <2>1
  <2> QED
    BY <2>1, <2>2
<1> QED
  BY <1>8, <1>10, <1>11, <1>12, <1>13

(* From its beginning. *)
LEMMA OverlaidStart ==
  ASSUME NEW S, NEW old \in Seq(S), NEW new \in Seq(S),
         NEW d, d = Overlaid(old, new, 0)
  PROVE  /\ d \in Seq(S)
         /\ Len(d) = IF Len(new) <= Len(old) THEN Len(old) ELSE Len(new)
         /\ \A i \in 1 .. Len(new) : d[i] = new[i]
         /\ \A i \in Len(new) + 1 .. Len(old) : d[i] = old[i]
<1>1. PICK m : m = 0 + Len(new)
  OBVIOUS
<1>2. 0 \in 0 .. Len(old) /\ m = Len(new) /\ Len(new) \in Nat
  BY <1>1
<1>3. /\ d \in Seq(S)
      /\ Len(d) = IF m <= Len(old) THEN Len(old) ELSE m
      /\ \A i \in 1 .. Len(new) : d[0 + i] = new[i]
      /\ \A i \in m + 1 .. Len(old) : d[i] = old[i]
  BY <1>1, <1>2, OverlaidIs
<1>4. \A i \in 1 .. Len(new) : 0 + i = i
  BY <1>2
<1> QED
  BY <1>2, <1>3, <1>4

LEMMA OverlaidNothing ==
  ASSUME NEW S, NEW old \in Seq(S)
  PROVE  Overlaid(old, <<>>, 0) = old
<1>1. PICK d : d = Overlaid(old, <<>>, 0)
  OBVIOUS
<1>2. PICK n : n = <<>>
  OBVIOUS
<1>3. n \in Seq(S) /\ Len(n) = 0 /\ Len(old) \in Nat /\ d = Overlaid(old, n, 0)
  BY <1>1, <1>2
<1>4. /\ d \in Seq(S)
      /\ Len(d) = IF Len(n) <= Len(old) THEN Len(old) ELSE Len(n)
      /\ \A i \in Len(n) + 1 .. Len(old) : d[i] = old[i]
  <2>1. n \in Seq(S) /\ d = Overlaid(old, n, 0)
    BY <1>3
  <2> QED
    BY <2>1, OverlaidStart
<1>5. Len(d) = Len(old) /\ \A i \in 1 .. Len(old) : d[i] = old[i]
  BY <1>3, <1>4
<1> QED
  BY <1>1, <1>4, <1>5, SeqEqual

(* One write after another comes to one of both. *)
LEMMA OverlaidGoesOn ==
  ASSUME NEW S, NEW old \in Seq(S), NEW data \in Seq(S),
         NEW w \in 0 .. Len(data), NEW v \in w .. Len(data),
         NEW d, d = Overlaid(old, SubSeq(data, 1, w), 0)
  PROVE  /\ d \in Seq(S) /\ w \in 0 .. Len(d)
         /\ Overlaid(d, SubSeq(data, w + 1, v), w) =
              Overlaid(old, SubSeq(data, 1, v), 0)
<1>0. /\ w \in Nat /\ v \in Nat /\ Len(old) \in Nat /\ v \in 0 .. Len(data)
      /\ w <= v
  OBVIOUS
<1>1. PICK a : a = SubSeq(data, 1, w)
  OBVIOUS
<1>2. PICK b : b = SubSeq(data, w + 1, v)
  OBVIOUS
<1>3. PICK c : c = SubSeq(data, 1, v)
  OBVIOUS
<1>4. PICK e : e = Overlaid(old, c, 0)
  OBVIOUS
<1>5. PICK f : f = Overlaid(d, b, w)
  OBVIOUS
<1>6. a \in Seq(S) /\ Len(a) = w /\ \A i \in 1 .. w : a[i] = data[i]
  BY <1>0, <1>1
<1>7. b \in Seq(S) /\ Len(b) = v - w /\ \A i \in 1 .. v - w : b[i] = data[w + i]
  BY <1>0, <1>2, PartIs
<1>8. c \in Seq(S) /\ Len(c) = v /\ \A i \in 1 .. v : c[i] = data[i]
  BY <1>0, <1>3
<1>9. /\ d \in Seq(S)
      /\ Len(d) = IF Len(a) <= Len(old) THEN Len(old) ELSE Len(a)
      /\ \A i \in 1 .. Len(a) : d[i] = a[i]
      /\ \A i \in Len(a) + 1 .. Len(old) : d[i] = old[i]
  <2>1. a \in Seq(S) /\ d = Overlaid(old, a, 0)
    BY <1>1, <1>6
  <2> QED
    BY <2>1, OverlaidStart
<1>10. /\ e \in Seq(S)
       /\ Len(e) = IF Len(c) <= Len(old) THEN Len(old) ELSE Len(c)
       /\ \A i \in 1 .. Len(c) : e[i] = c[i]
       /\ \A i \in Len(c) + 1 .. Len(old) : e[i] = old[i]
  <2>1. c \in Seq(S) /\ e = Overlaid(old, c, 0)
    BY <1>4, <1>8
  <2> QED
    BY <2>1, OverlaidStart
<1>11. w \in 0 .. Len(d) /\ v = w + Len(b)
  BY <1>0, <1>6, <1>7, <1>9
<1>12. /\ f \in Seq(S)
       /\ Len(f) = IF v <= Len(d) THEN Len(d) ELSE v
       /\ \A i \in 1 .. w : f[i] = d[i]
       /\ \A i \in 1 .. Len(b) : f[w + i] = b[i]
       /\ \A i \in v + 1 .. Len(d) : f[i] = d[i]
  <2>1. /\ d \in Seq(S) /\ b \in Seq(S) /\ w \in 0 .. Len(d)
        /\ f = Overlaid(d, b, w) /\ v = w + Len(b)
    BY <1>5, <1>7, <1>9, <1>11
  <2> QED
    BY <2>1, OverlaidIs, SMTT(120)
<1>13. Len(f) = Len(e)
  BY <1>0, <1>6, <1>8, <1>9, <1>10, <1>12
<1>14. ASSUME NEW i \in 1 .. Len(e)
       PROVE  f[i] = e[i]
  <2>1. CASE i \in 1 .. w
    BY <1>0, <1>6, <1>8, <1>9, <1>10, <1>12, <2>1
  <2>2. CASE i \in w + 1 .. v
    <3>1. i - w \in 1 .. v - w /\ w + (i - w) = i
      BY <1>0, <2>2
    <3>2. f[w + (i - w)] = b[i - w] /\ b[i - w] = data[w + (i - w)]
      BY <1>7, <1>12, <3>1
    <3>3. e[i] = c[i] /\ c[i] = data[i]
      BY <1>0, <1>8, <1>10, <2>2
    <3> QED
      BY <3>1, <3>2, <3>3
  <2>3. CASE i \in v + 1 .. Len(old)
    <3>1. i \in w + 1 .. Len(old) /\ i \in v + 1 .. Len(d)
      BY <1>0, <1>6, <1>9, <2>3
    <3> QED
      BY <1>6, <1>8, <1>9, <1>10, <1>12, <2>3, <3>1
  <2> QED
    BY <1>0, <1>8, <1>10, <2>1, <2>2, <2>3
<1>15. f = e
  BY <1>10, <1>12, <1>13, <1>14, SeqEqual
<1> QED
  BY <1>2, <1>3, <1>4, <1>5, <1>9, <1>11, <1>15

----------------------------------------------------------------------------
(* What is in an answer, and in the files, after a request is served.       *)

LEMMA DataAnswerFields ==
  ASSUME NEW given
  PROVE  /\ {"bytesRead", "error", "data"} \subseteq DOMAIN Answer("Read", given).f
         /\ {"bytesWritten", "error"} \subseteq DOMAIN Answer("Write", given).f
         /\ {"size", "error"} \subseteq DOMAIN Answer("Fstat", given).f
<1>1. {"bytesRead", "error", "data"} \subseteq
        Range(<<"fp", "offset", "bytesRead", "error", "data">>)
  BY DEF Range
<1>2. {"bytesWritten", "error"} \subseteq
        Range(<<"fp", "offset", "bytesWritten", "error">>)
  BY DEF Range
<1>3. {"size", "error"} \subseteq
        Range(<<"error", "mode", "size", "linkCount">> \o Times)
  BY DEF Range, Times
<1> QED
  BY <1>1, <1>2, <1>3, AnswerTable DEF Answer

(* What is got of a field that an answer has. *)
LEMMA GotIs ==
  ASSUME NEW sub, NEW given, NEW y \in DOMAIN Answer(sub, given).f
  PROVE  Got(Answer(sub, given), y) = IF y \in DOMAIN given THEN given[y] ELSE Zero(y)
BY AnswerShape DEF Got

LEMMA RefusalErrs ==
  ASSUME NEW req, EfsReq(req),
         req.sub \in {"Open", "OpenDir", "Close", "CloseDir", "Read", "Write", "Fstat"}
  PROVE  ErrorIn(Refusal(req)) /\ Refusal(req).sub = req.sub
<1> DEFINE given == [error |-> 1]
<1>1. Refusal(req) = Answer(req.sub, given)
  BY DEF Refusal, EfsReq
<1>2. "error" \in DOMAIN given /\ given["error"] = 1
  OBVIOUS
<1> HIDE DEF given
<1>3. "error" \in DOMAIN Answer(req.sub, given).f
  BY HandleAnswerFields, DataAnswerFields
<1>4. Got(Answer(req.sub, given), "error") = 1
  BY <1>2, <1>3, GotIs
<1> QED
  BY <1>1, <1>4, AnswerShape DEF ErrorIn

(* The file that a request is about, what is read of it and what is written *)
(* to it.                                                                   *)
FileOf(p, req) == p.tree[p.open[<<"file", req.h>>]].data
PartRead(p, req) ==
  SubSeq(FileOf(p, req), req.offset + 1,
         Min({Len(FileOf(p, req)), req.offset + Min({req.size, MaxRead})}))
PartWritten(req) == SubSeq(req.data, 1, Min({Len(req.data), MaxWrite}))

LEMMA PartWrittenIs ==
  ASSUME NEW req, Sound(req), req.sub = "Write"
  PROVE  LET m == IF Len(req.data) <= MaxWrite THEN Len(req.data) ELSE MaxWrite
         IN  /\ m \in 0 .. Len(req.data)
             /\ PartWritten(req) = SubSeq(req.data, 1, m)
             /\ PartWritten(req) \in Seq(Nat)
             /\ Len(PartWritten(req)) = m
<1>1. req.data \in Seq(Nat) /\ Len(req.data) \in Nat
  BY DEF Sound
<1>2. PICK n : n = Min({Len(req.data), MaxWrite})
  OBVIOUS
<1>3. Len(req.data) \in Int /\ MaxWrite \in Int /\ MaxWrite \in Nat
  BY <1>1, PhoneAssumption
<1>4. n = IF Len(req.data) <= MaxWrite THEN Len(req.data) ELSE MaxWrite
  BY <1>2, <1>3, MinIs
<1>5. n \in 0 .. Len(req.data)
  BY <1>1, <1>3, <1>4
<1>6. SubSeq(req.data, 1, n) \in Seq(Nat) /\ Len(SubSeq(req.data, 1, n)) = n
  BY <1>1, <1>5, FirstPart
<1> QED
  BY <1>2, <1>4, <1>5, <1>6 DEF PartWritten

LEMMA ReadServed ==
  ASSUME NEW p, NEW req, EfsReq(req), req.sub = "Read", NEW s, s = Serve(p, req),
         ~ ErrorIn(s.answer)
  PROVE  /\ s.phone = p
         /\ IsOpen(p, "file", req.h)
         /\ Got(s.answer, "bytesRead") = Len(PartRead(p, req))
         /\ Got(s.answer, "data") = PartRead(p, req)
<1>1. s = Reads(p, req)
  BY DEF Serve, ServesEfs, EfsReq
<1>2. s # Refused(p, req)
  BY RefusalErrs DEF Refused, Done
<1> DEFINE part == PartRead(p, req)
           given == [fp |-> req.h, offset |-> req.offset, bytesRead |-> Len(part),
                     data |-> part]
<1>3. IsOpen(p, "file", req.h) /\ s = Done(p, Answer("Read", given))
  <2>1. IsOpen(p, "file", req.h)
    BY <1>1, <1>2, Zenon DEF Reads
  <2>2. s = Done(p, Answer("Read", given))
    BY <1>1, <2>1, Zenon DEF Reads, FileOf, PartRead
  <2> QED
    BY <2>1, <2>2
<1>4. /\ "bytesRead" \in DOMAIN given /\ given["bytesRead"] = Len(part)
      /\ "data" \in DOMAIN given /\ given["data"] = part
  OBVIOUS
<1> HIDE DEF given
<1>5. s.phone = p /\ s.answer = Answer("Read", given)
  BY <1>3 DEF Done
<1>6. {"bytesRead", "data"} \subseteq DOMAIN Answer("Read", given).f
  BY DataAnswerFields
<1>7. /\ Got(Answer("Read", given), "bytesRead") = Len(part)
      /\ Got(Answer("Read", given), "data") = part
  BY <1>4, <1>6, GotIs
<1> QED
  BY <1>3, <1>5, <1>7

LEMMA FstatServed ==
  ASSUME NEW p, NEW req, EfsReq(req), req.sub = "Fstat", NEW s, s = Serve(p, req),
         ~ ErrorIn(s.answer)
  PROVE  /\ s.phone = p
         /\ IsOpen(p, "file", req.h)
         /\ Got(s.answer, "size") = Len(FileOf(p, req))
<1> DEFINE given == [size |-> Len(FileOf(p, req))]
<1>1. s # Refused(p, req)
  BY RefusalErrs DEF Refused, Done
<1>2. IsOpen(p, "file", req.h) /\ s = Done(p, Answer("Fstat", given))
  BY <1>1 DEF Serve, ServesEfs, EfsReq, FileOf
<1>3. "size" \in DOMAIN given /\ given["size"] = Len(FileOf(p, req))
  OBVIOUS
<1> HIDE DEF given
<1>4. s.phone = p /\ s.answer = Answer("Fstat", given)
  BY <1>2 DEF Done
<1>5. "size" \in DOMAIN Answer("Fstat", given).f
  BY DataAnswerFields
<1> QED
  BY <1>2, <1>3, <1>4, <1>5, GotIs

LEMMA WriteServed ==
  ASSUME NEW p, NEW req, EfsReq(req), req.sub = "Write", NEW s, s = Serve(p, req),
         ~ ErrorIn(s.answer)
  PROVE  /\ IsOpen(p, "file", req.h)
         /\ ~ (req.offset > Len(FileOf(p, req)))
         /\ s.phone = Put(p, p.open[<<"file", req.h>>],
                          File(Overlaid(FileOf(p, req), PartWritten(req), req.offset)))
         /\ Got(s.answer, "bytesWritten") = Len(PartWritten(req))
<1> DEFINE part == PartWritten(req)
           given == [fp |-> req.h, offset |-> req.offset, bytesWritten |-> Len(part)]
           q == Put(p, p.open[<<"file", req.h>>],
                    File(Overlaid(FileOf(p, req), part, req.offset)))
<1>1. s = Writes(p, req)
  BY DEF Serve, ServesEfs, EfsReq
<1>2. s # Refused(p, req)
  BY RefusalErrs DEF Refused, Done
<1>3. /\ IsOpen(p, "file", req.h) /\ ~ (req.offset > Len(FileOf(p, req)))
      /\ s = Done(q, Answer("Write", given))
  BY <1>1, <1>2 DEF Writes, FileOf, PartWritten
<1>4. "bytesWritten" \in DOMAIN given /\ given["bytesWritten"] = Len(part)
  OBVIOUS
<1> HIDE DEF given, q
<1>5. s.phone = q /\ s.answer = Answer("Write", given)
  BY <1>3 DEF Done
<1>6. "bytesWritten" \in DOMAIN Answer("Write", given).f
  BY DataAnswerFields
<1>7. Got(Answer("Write", given), "bytesWritten") = Len(part)
  BY <1>4, <1>6, GotIs
<1> QED
  BY <1>3, <1>5, <1>7 DEF q

----------------------------------------------------------------------------
(* Every open file is one, with numbers in it, after every request.         *)

LEMMA PutIs ==
  ASSUME NEW p, PhoneOK(p), NEW path, NEW node, NEW q, q = Put(p, path, node)
  PROVE  /\ q.open = p.open
         /\ DOMAIN q.tree = DOMAIN p.tree \cup {path}
         /\ q.tree[path] = node
         /\ \A r \in DOMAIN p.tree : r # path => q.tree[r] = p.tree[r]
<1>1. q.open = p.open /\ q.tree = Only(path, node) ++ p.tree
  BY DEF Put, PhoneOK
<1> QED
  BY <1>1 DEF ++, Only

LEMMA PutFiles ==
  ASSUME NEW p, PhoneOK(p), FilesOK(p), NEW path, NEW node,
         node.type = "file" => node.data \in Seq(Nat),
         node.type = "file" \/ path \notin DOMAIN p.tree
  PROVE  FilesOK(Put(p, path, node))
<1>1. PICK q : q = Put(p, path, node)
  OBVIOUS
<1>2. /\ q.open = p.open
      /\ DOMAIN q.tree = DOMAIN p.tree \cup {path}
      /\ q.tree[path] = node
      /\ \A r \in DOMAIN p.tree : r # path => q.tree[r] = p.tree[r]
  BY <1>1, PutIs
<1>3. \A r \in DOMAIN q.tree :
        q.tree[r].type = "file" => q.tree[r].data \in Seq(Nat)
  BY <1>2 DEF FilesOK
<1>4. \A x \in DOMAIN q.open :
        x[1] = "file" => q.open[x] \in DOMAIN q.tree /\ q.tree[q.open[x]].type = "file"
  BY <1>2 DEF FilesOK
<1> QED
  BY <1>1, <1>3, <1>4 DEF FilesOK

LEMMA DroppingFiles ==
  ASSUME NEW p, PhoneOK(p), FilesOK(p), NEW path, ~ InUse(p, path)
  PROVE  FilesOK(Dropping(p, path))
<1>1. PICK q : q = Dropping(p, path)
  OBVIOUS
<1>2. /\ q.open = p.open
      /\ q.tree = [r \in DOMAIN p.tree \ {path} |-> p.tree[r]]
  BY <1>1 DEF Dropping, PhoneOK
<1>3. FilesOK(q)
  BY <1>2 DEF FilesOK, InUse
<1> QED
  BY <1>1, <1>3

(* What opens adds a handle; what closes takes one. *)
LEMMA OpensFiles ==
  ASSUME NEW p, PhoneOK(p), FilesOK(p), NEW req, NEW kind, NEW field, NEW s,
         OpensTo(p, req, kind, field, s),
         kind = "file" => IsA(p, req.path, "file")
  PROVE  FilesOK(s.phone) /\ s.phone.tree = p.tree
<1> DEFINE x == <<kind, Free(p, kind)>>
           q == [p EXCEPT !.open = Only(x, Trimmed(req.path)) ++ @]
<1>1. s.phone = p \/ s.phone = q
  BY DEF OpensTo, Refused, Done
<1>2. PICK r : r = q
  OBVIOUS
<1>3. r.tree = p.tree /\ r.open = Only(x, Trimmed(req.path)) ++ p.open
  BY <1>2 DEF PhoneOK
<1>4. x[1] = kind
  OBVIOUS
<1> HIDE DEF x, q
<1>5. /\ DOMAIN r.open = DOMAIN p.open \cup {x}
      /\ r.open[x] = Trimmed(req.path)
      /\ \A y \in DOMAIN p.open : y # x => r.open[y] = p.open[y]
  BY <1>3 DEF ++, Only
<1>6. FilesOK(r)
  BY <1>3, <1>4, <1>5 DEF FilesOK, IsA
<1> QED
  BY <1>1, <1>2, <1>3, <1>6

LEMMA ClosesFiles ==
  ASSUME NEW p, PhoneOK(p), FilesOK(p), NEW req, NEW kind,
         NEW q, q = Closes(p, req, kind).phone
  PROVE  FilesOK(q) /\ q.tree = p.tree
<1> DEFINE x == <<kind, req.h>>
           c == [p EXCEPT !.open = [y \in DOMAIN p.open \ {x} |-> p.open[y]]]
<1>1. q = p \/ q = c
  BY DEF Closes, Doing, Refused, Done
<1>2. c.tree = p.tree /\ c.open = [y \in DOMAIN p.open \ {x} |-> p.open[y]]
  BY DEF PhoneOK
<1> HIDE DEF x, c
<1>3. FilesOK(c)
  BY <1>2 DEF FilesOK
<1> QED
  BY <1>1, <1>2, <1>3

(* A file that is opened to be written is there, as it was or empty.        *)
LEMMA OpenServed ==
  ASSUME NEW p, PhoneOK(p), FilesOK(p), NEW req, EfsReq(req), req.sub = "Open",
         NEW s, s = Serve(p, req)
  PROVE  /\ FilesOK(s.phone)
         /\ ~ ErrorIn(s.answer) =>
              LET path == Trimmed(req.path)
              IN  /\ IsA(s.phone, req.path, "file")
                  /\ s.phone.tree[path].data =
                       IF IsA(p, req.path, "file") THEN p.tree[path].data ELSE NoData
<1> DEFINE path == Trimmed(req.path)
           node == File(NoData)
<1>1. PICK q : q = Put(p, path, node)
  OBVIOUS
<1>2. s = OpensFile(p, req)
  BY DEF Serve, ServesEfs, EfsReq
<1>3. CASE /\ ~ Exists(p, req.path)
           /\ s = Opens(q, req, "file", "fp", TRUE)
  <2>1. PhoneOK(q)
    BY <1>1, PutOK DEF File, NodeTypes, Alike
  <2>2. node.type = "file" /\ node.data = NoData /\ NoData \in Seq(Nat)
    BY DEF File, NoData
  <2>3. FilesOK(q)
    BY <1>1, <2>2, PutFiles
  <2>4. IsA(q, req.path, "file") /\ q.tree[path].data = NoData
    BY <1>1, <2>2, PutIs DEF IsA
  <2>5. OpensTo(q, req, "file", "fp", s)
    BY <1>3 DEF Opens, OpensTo
  <2>6. FilesOK(s.phone) /\ s.phone.tree = q.tree
    BY <2>1, <2>3, <2>4, <2>5, OpensFiles
  <2>7. ~ IsA(p, req.path, "file")
    BY <1>3 DEF Exists, IsA
  <2> QED
    BY <2>4, <2>6, <2>7 DEF IsA
<1>4. CASE s = Opens(p, req, "file", "fp", IsA(p, req.path, "file"))
  <2>1. CASE IsA(p, req.path, "file")
    <3>1. OpensTo(p, req, "file", "fp", s)
      BY <1>4, <2>1 DEF Opens, OpensTo
    <3>2. FilesOK(s.phone) /\ s.phone.tree = p.tree
      BY <2>1, <3>1, OpensFiles
    <3> QED
      BY <2>1, <3>2 DEF IsA
  <2>2. CASE ~ IsA(p, req.path, "file")
    <3>1. s.phone = p /\ s.answer = Refusal(req)
      BY <1>4, <2>2 DEF Opens, Refused, Done
    <3> QED
      BY <3>1, RefusalErrs
  <2> QED
    BY <2>1, <2>2
<1> QED
  BY <1>1, <1>2, <1>3, <1>4 DEF OpensFile

LEMMA CloseKeepsTree ==
  ASSUME NEW p, PhoneOK(p), FilesOK(p), NEW req, EfsReq(req),
         req.sub \in {"Close", "CloseDir"}
  PROVE  Serve(p, req).phone.tree = p.tree
<1>1. \/ Serve(p, req) = Closes(p, req, "file")
      \/ Serve(p, req) = Closes(p, req, "dir")
  BY DEF Serve, ServesEfs, EfsReq
<1> QED
  BY <1>1, ClosesFiles

(* A request is one of the rest of diag, or changes nothing in the files,   *)
(* or one of what follows.                                                  *)
LEMMA WriteFiles ==
  ASSUME NEW p, PhoneOK(p), FilesOK(p), NEW req, Sound(req), req.sub = "Write",
         NEW s, s = Writes(p, req)
  PROVE  FilesOK(s.phone)
<1> DEFINE path == p.open[<<"file", req.h>>]
           part == PartWritten(req)
           old == p.tree[path].data
           new == Overlaid(old, part, req.offset)
<1>1. CASE s = Refused(p, req)
  BY <1>1 DEF Refused, Done
<1>2. CASE s # Refused(p, req)
  <2>1. IsOpen(p, "file", req.h)
    BY <1>2, Zenon DEF Writes
  <2>2. ~ (req.offset > Len(old))
    BY <1>2, <2>1, Zenon DEF Writes
  <2>3. s.phone = Put(p, path, File(new))
    BY <2>1, <2>2, Zenon DEF Writes, Done, PartWritten
  <2>4. <<"file", req.h>> \in DOMAIN p.open /\ <<"file", req.h>>[1] = "file"
    BY <2>1 DEF IsOpen
  <2>5. old \in Seq(Nat)
    BY <2>4 DEF FilesOK
  <2>6. part \in Seq(Nat)
    BY PartWrittenIs
  <2> HIDE DEF old, part, path
  <2>7. req.offset \in 0 .. Len(old)
    <3>1. req.offset \in Nat /\ Len(old) \in Nat
      BY <2>5 DEF Sound
    <3> QED
      BY <2>2, <3>1
  <2>8. new \in Seq(Nat)
    <3>1. PICK m : m = req.offset + Len(part)
      OBVIOUS
    <3>2. PICK d : d = new
      OBVIOUS
    <3>3. d \in Seq(Nat)
      BY <2>5, <2>6, <2>7, <3>1, <3>2, OverlaidIs
    <3> QED
      BY <3>2, <3>3
  <2> HIDE DEF new
  <2>9. File(new).type = "file" /\ File(new).data = new
    BY DEF File
  <2>10. FilesOK(Put(p, path, File(new)))
    BY <2>8, <2>9, PutFiles
  <2> QED
    BY <2>3, <2>10
<1> QED
  BY <1>1, <1>2

LEMMA TruncateFiles ==
  ASSUME NEW p, PhoneOK(p), FilesOK(p), NEW req, Sound(req), req.sub = "Ftruncate",
         IsOpen(p, "file", req.h),
         NEW path, path = p.open[<<"file", req.h>>]
  PROVE  FilesOK(Put(p, path, File(SubSeq(p.tree[path].data, 1, req.size))))
<1> DEFINE old == p.tree[path].data
           new == SubSeq(old, 1, req.size)
<1>1. <<"file", req.h>> \in DOMAIN p.open /\ <<"file", req.h>>[1] = "file"
  BY DEF IsOpen
<1>2. old \in Seq(Nat)
  BY <1>1 DEF FilesOK
<1>3. req.size = 0
  BY DEF Sound
<1>4. new \in Seq(Nat)
  BY <1>2, <1>3, WholePart
<1>5. File(new).type = "file" /\ File(new).data = new
  BY DEF File
<1> HIDE DEF new
<1>6. FilesOK(Put(p, path, File(new)))
  BY <1>4, <1>5, PutFiles
<1> QED
  BY <1>6 DEF new

LEMMA ServesFiles ==
  ASSUME NEW p, PhoneOK(p), FilesOK(p), NEW req, Req(req), Sound(req)
  PROVE  FilesOK(Serve(p, req).phone)
<1>1. PICK s : s = Serve(p, req)
  OBVIOUS
<1> SUFFICES FilesOK(s.phone)
  BY <1>1
<1>2. CASE QcdmReq(req)
  <2>1. s.phone.tree = p.tree /\ s.phone.open = p.open
    BY <1>1, <1>2 DEF Serve, ServesQcdm, QcdmReq, Done, PhoneOK
  <2> QED
    BY <1>1, <2>1 DEF FilesOK
<1>3. CASE EfsReq(req)
  <2>0. s = ServesEfs(p, req)
    BY <1>1, <1>3 DEF Serve, EfsReq
  <2>1. s = Refused(p, req) => FilesOK(s.phone)
    BY DEF Refused, Done
  <2>2. \A q, allowed :
          (allowed => FilesOK(q)) /\ s = Doing(p, req, allowed, q) => FilesOK(s.phone)
    <3> TAKE q, allowed
    <3>1. CASE allowed
      BY <3>1 DEF Doing, Done
    <3>2. CASE ~ allowed
      BY <2>1, <3>2 DEF Doing
    <3> QED
      BY <3>1, <3>2
  <2>3. \A answer : s = Done(p, answer) => FilesOK(s.phone)
    BY DEF Done
  <2>4. CASE req.sub = "Open"
    BY <1>1, <1>3, <2>4, OpenServed
  <2>5. CASE req.sub \in {"Close", "CloseDir", "FsImageClose"}
    <3>1. PICK kind : s = Closes(p, req, kind)
      BY <2>0, <2>5 DEF ServesEfs
    <3> QED
      BY <3>1, ClosesFiles
  <2>6. CASE req.sub \in {"OpenDir", "FsImageOpen"}
    <3>1. PICK kind, field, allowed : /\ s = Opens(p, req, kind, field, allowed)
                                      /\ kind # "file"
      <4>1. CASE req.sub = "OpenDir"
        BY <2>0, <4>1 DEF ServesEfs
      <4>2. CASE req.sub = "FsImageOpen"
        <5>1. s = Opens(p, req, "image", "handle", TRUE)
          BY <2>0, <4>2 DEF ServesEfs
        <5>2. "image" # "file"
          OBVIOUS
        <5> QED
          BY <5>1, <5>2, Zenon
      <4> QED
        BY <2>6, <4>1, <4>2
    <3>2. OpensTo(p, req, kind, field, s)
      BY <3>1, Zenon DEF Opens, OpensTo
    <3> QED
      BY <3>1, <3>2, OpensFiles
  <2>7. CASE req.sub = "Read"
    <3>1. s = Reads(p, req)
      BY <2>0, <2>7 DEF ServesEfs
    <3> QED
      BY <2>1, <2>3, <3>1, Zenon DEF Reads
  <2>8. CASE req.sub = "Write"
    <3>1. s = Writes(p, req)
      BY <2>0, <2>8 DEF ServesEfs
    <3> QED
      BY <2>8, <3>1, WriteFiles
  <2>9. CASE req.sub = "Fstat"
    BY <2>0, <2>1, <2>3, <2>9 DEF ServesEfs
  <2>10. CASE req.sub = "ReadDir"
    <3>1. s = ListsEntry(p, req)
      BY <2>0, <2>10 DEF ServesEfs
    <3> QED
      BY <2>1, <2>3, <3>1, Zenon DEF ListsEntry
  <2>11. CASE req.sub \in {"Unlink", "Rmdir"}
    <3>1. PICK allowed : /\ s = Doing(p, req, allowed, Dropping(p, Trimmed(req.path)))
                         /\ allowed => ~ InUse(p, Trimmed(req.path))
      <4>1. CASE req.sub = "Unlink"
        BY <2>0, <4>1 DEF ServesEfs
      <4>2. CASE req.sub = "Rmdir"
        BY <2>0, <4>2 DEF ServesEfs
      <4> QED
        BY <2>11, <4>1, <4>2
    <3>2. allowed => FilesOK(Dropping(p, Trimmed(req.path)))
      BY <3>1, DroppingFiles
    <3> QED
      BY <2>2, <3>1, <3>2
  <2>12. CASE req.sub = "Mkdir"
    <3>1. PICK allowed : /\ s = Doing(p, req, allowed, Put(p, Trimmed(req.path), Dir))
                         /\ allowed => Trimmed(req.path) \notin DOMAIN p.tree
      BY <2>0, <2>12 DEF ServesEfs, Exists
    <3>2. Dir.type # "file"
      BY DEF Dir
    <3>3. allowed => FilesOK(Put(p, Trimmed(req.path), Dir))
      BY <3>1, <3>2, PutFiles
    <3> QED
      BY <2>2, <3>1, <3>3
  <2>13. CASE req.sub = "Symlink"
    <3>1. PICK link : link = [type |-> "link", data |-> req.path]
      OBVIOUS
    <3>2. PICK allowed : /\ s = Doing(p, req, allowed, Put(p, Trimmed(req.link), link))
                         /\ allowed => Trimmed(req.link) \notin DOMAIN p.tree
      BY <2>0, <2>13, <3>1 DEF ServesEfs, Exists
    <3>3. link.type # "file"
      BY <3>1
    <3>4. allowed => FilesOK(Put(p, Trimmed(req.link), link))
      BY <3>2, <3>3, PutFiles
    <3> QED
      BY <2>2, <3>2, <3>4
  <2>14. CASE req.sub = "ReadLink"
    BY <2>0, <2>1, <2>3, <2>14 DEF ServesEfs
  <2>15. CASE req.sub = "Ftruncate"
    <3>1. CASE ~ IsOpen(p, "file", req.h)
      BY <2>0, <2>1, <2>15, <3>1 DEF ServesEfs
    <3>2. CASE IsOpen(p, "file", req.h)
      <4>1. PICK path : path = p.open[<<"file", req.h>>]
        OBVIOUS
      <4>2. s.phone = Put(p, path, File(SubSeq(p.tree[path].data, 1, req.size)))
        BY <2>0, <2>15, <3>2, <4>1 DEF ServesEfs, Done
      <4> QED
        BY <2>15, <3>2, <4>1, <4>2, TruncateFiles
    <3> QED
      BY <3>1, <3>2
  <2>16. CASE req.sub \in {"Stat", "Lstat", "StatFS", "StatVFS_V2", "Chmod"}
    <3>1. s = Doing(p, req, Exists(p, req.path), p)
      BY <2>0, <2>16 DEF ServesEfs
    <3> QED
      BY <2>2, <3>1
  <2>17. CASE req.sub \in {"Hello", "Query", "DevInfo", "FactoryImageStart"}
    <3>1. s = Done(p, Answer(req.sub, <<>>))
      BY <2>0, <2>17 DEF ServesEfs
    <3> QED
      BY <2>3, <3>1
  <2>18. CASE req.sub \notin {"Open", "Close", "CloseDir", "FsImageClose", "OpenDir",
                              "FsImageOpen", "Read", "Write", "Fstat", "ReadDir",
                              "Unlink", "Rmdir", "Mkdir", "Symlink", "ReadLink",
                              "Ftruncate", "Stat", "Lstat", "StatFS", "StatVFS_V2",
                              "Chmod", "Hello", "Query", "DevInfo",
                              "FactoryImageStart"}
    <3>1. s = Refused(p, req)
      BY <2>0, <2>18 DEF ServesEfs
    <3> QED
      BY <2>1, <3>1
  <2> QED
    BY <2>4, <2>5, <2>6, <2>7, <2>8, <2>9, <2>10, <2>11, <2>12, <2>13, <2>14,
       <2>15, <2>16, <2>17, <2>18
<1> QED
  BY <1>2, <1>3 DEF Req
----------------------------------------------------------------------------
(* Packets on the line: what they count and how many they are.              *)

(* What a request brings to the line. *)
Sent(req) ==
  LET answer == Serve(phone, req).answer
  IN  {answer, Refusal(req), BadCommand, LogPacket, Remainder, Silence}
        \cup CutAnswers(answer)

LEMMA TakenPackets ==
  ASSUME NEW x, NEW S, NEW queue \in Seq(S), TakenFrom(x, queue)
  PROVE  /\ x.heard \in S \cup {Silence}
         /\ x.rest \in Seq(S)
         /\ Len(x.rest) = IF queue = <<>> THEN 0 ELSE Len(queue) - 1
         /\ queue # <<>> => x.heard = queue[1]
         /\ \A i \in 1 .. Len(x.rest) : x.rest[i] = queue[i + 1]
<1>1. CASE queue = <<>>
  <2>1. x.heard = Silence /\ x.rest = <<>>
    BY <1>1 DEF TakenFrom
  <2> QED
    BY <1>1, <2>1
<1>2. CASE queue # <<>>
  <2>1. x.heard = Head(queue) /\ x.rest = Tail(queue)
    BY <1>2 DEF TakenFrom
  <2>2. /\ Head(queue) = queue[1] /\ queue[1] \in S
        /\ Tail(queue) \in Seq(S) /\ Len(Tail(queue)) = Len(queue) - 1
        /\ \A i \in 1 .. Len(Tail(queue)) : Tail(queue)[i] = queue[i + 1]
    BY <1>2, HeadTailProperties
  <2> QED
    BY <1>2, <2>1, <2>2
<1> QED
  BY <1>1, <1>2

(* What is heard or stays on the line was there or was sent, and how many   *)
(* there are.                                                               *)
LEMMA ExchangePackets ==
  ASSUME rx \in Seq(Range(rx)), NEW req, NEW x \in Exchanges(req)
  PROVE  LET S == Range(rx) \cup Sent(req)
         IN  /\ x.heard \in S
             /\ x.rest \in Seq(S)
             /\ \/ Len(x.rest) <= Len(rx)
                \/ /\ x.fault \in {"log", "slow", "cut"}
                   /\ Len(x.rest) = Len(rx) + 1
                   /\ x.fault = "log" => "log" \in Faults
                   /\ x.fault # "log" => rx = <<>>
<1> DEFINE S == Range(rx) \cup Sent(req)
           answer == Serve(phone, req).answer
<1>0. /\ rx \in Seq(S) /\ Len(rx) \in Nat
      /\ {answer, Refusal(req), BadCommand, LogPacket, Remainder, Silence} \subseteq S
      /\ CutAnswers(answer) \subseteq S
  BY SeqMonotonic DEF Sent
<1> HIDE DEF S, answer
<1>1. ASSUME NEW queue \in Seq(S), TakenFrom(x, queue)
      PROVE  /\ x.heard \in S /\ x.rest \in Seq(S)
             /\ Len(x.rest) = IF queue = <<>> THEN 0 ELSE Len(queue) - 1
  <2>1. /\ x.heard \in S \cup {Silence} /\ x.rest \in Seq(S)
        /\ Len(x.rest) = IF queue = <<>> THEN 0 ELSE Len(queue) - 1
    BY <1>1, TakenPackets
  <2> QED
    BY <1>0, <2>1
<1>2. ASSUME NEW packet \in S
      PROVE  /\ Append(rx, packet) \in Seq(S)
             /\ Append(rx, packet) # <<>>
             /\ Len(Append(rx, packet)) = Len(rx) + 1
  BY <1>0
<1>3. ASSUME NEW packet \in S, TakenFrom(x, Append(rx, packet))
      PROVE  x.heard \in S /\ x.rest \in Seq(S) /\ Len(x.rest) <= Len(rx)
  <2>1. PICK queue : queue = Append(rx, packet)
    OBVIOUS
  <2>2. queue \in Seq(S) /\ queue # <<>> /\ Len(queue) = Len(rx) + 1
    BY <1>2, <2>1
  <2>3. /\ x.heard \in S /\ x.rest \in Seq(S)
        /\ Len(x.rest) = IF queue = <<>> THEN 0 ELSE Len(queue) - 1
    BY <1>1, <1>3, <2>1, <2>2
  <2> QED
    BY <1>0, <2>2, <2>3
<1>4. CASE Gone(x)
  <2>1. /\ x.heard \in S /\ x.rest \in Seq(S)
        /\ Len(x.rest) = IF rx = <<>> THEN 0 ELSE Len(rx) - 1
    BY <1>0, <1>1, <1>4 DEF Gone
  <2> QED
    BY <1>0, <2>1 DEF S
<1>5. CASE Answered(req, x)
  BY <1>0, <1>3, <1>5 DEF Answered, S, answer
<1>6. CASE Logged(req, x)
  <2>1. PICK queue : queue = rx \o <<LogPacket, answer>>
    OBVIOUS
  <2>2. queue \in Seq(S) /\ queue # <<>> /\ Len(queue) = Len(rx) + 2
    BY <1>0, <2>1
  <2>3. TakenFrom(x, queue) /\ x.fault = "log" /\ "log" \in Faults
    BY <1>6, <2>1 DEF Logged, answer
  <2>4. /\ x.heard \in S /\ x.rest \in Seq(S)
        /\ Len(x.rest) = IF queue = <<>> THEN 0 ELSE Len(queue) - 1
    BY <1>1, <2>2, <2>3
  <2> QED
    BY <1>0, <2>2, <2>3, <2>4 DEF S
<1>7. CASE Turned(req, x)
  BY <1>0, <1>3, <1>7 DEF Turned, S
<1>8. CASE Late(req, x)
  <2>1. x.heard = Silence /\ x.rest = <<answer>> /\ x.fault = "slow" /\ rx = <<>>
    BY <1>8 DEF Late, answer
  <2> QED
    BY <1>0, <2>1 DEF S
<1>9. CASE Shortened(req, x)
  <2>1. /\ x.heard \in CutAnswers(answer) /\ x.rest = <<Remainder>>
        /\ x.fault = "cut" /\ rx = <<>>
    BY <1>9 DEF Shortened, answer
  <2> QED
    BY <1>0, <2>1 DEF S
<1> QED
  BY <1>4, <1>5, <1>6, <1>7, <1>8, <1>9, ExchangeForms

LEMMA ExchangeBacklog ==
  ASSUME rx \in Seq(Range(rx)), faults \in 0 .. MaxFaults, Backlog,
         NEW req, NEW x \in Exchanges(req), Takes(x)
  PROVE  Backlog'
<1>0. rx' = x.rest /\ faults' = IF x.fault = "none" THEN faults ELSE faults - 1
  BY DEF Takes
<1>1. /\ x.rest \in Seq(Range(rx) \cup Sent(req))
      /\ \/ Len(x.rest) <= Len(rx)
         \/ /\ x.fault \in {"log", "slow", "cut"}
            /\ Len(x.rest) = Len(rx) + 1
            /\ x.fault = "log" => "log" \in Faults
            /\ x.fault # "log" => rx = <<>>
  BY ExchangePackets
<1>2. x.fault = "none" \/ faults # 0
  BY ExchangeForms
<1>3. Len(x.rest) \in Nat /\ Len(rx) \in Nat /\ faults \in Nat /\ MaxFaults \in Nat
  BY <1>1, LineAssumption
<1>4. Len(rx) + faults <= MaxFaults /\ ("log" \notin Faults => Len(rx) <= 1)
  BY DEF Backlog
<1>5. CASE Len(x.rest) <= Len(rx)
  <2>1. faults' <= faults /\ faults' \in Int
    BY <1>0, <1>3
  <2>2. Len(rx') + faults' <= MaxFaults
    <3>1. Len(rx') <= Len(rx) /\ Len(rx') \in Nat
      BY <1>0, <1>3, <1>5
    <3> QED
      BY <1>3, <1>4, <2>1, <3>1
  <2>3. "log" \notin Faults => Len(rx') <= 1
    BY <1>0, <1>3, <1>4, <1>5
  <2> QED
    BY <2>2, <2>3 DEF Backlog
<1>6. CASE /\ x.fault \in {"log", "slow", "cut"}
           /\ Len(x.rest) = Len(rx) + 1
           /\ x.fault = "log" => "log" \in Faults
           /\ x.fault # "log" => rx = <<>>
  <2>1. faults' = faults - 1
    BY <1>0, <1>6
  <2>2. Len(rx') + faults' <= MaxFaults
    BY <1>0, <1>3, <1>4, <1>6, <2>1
  <2>3. "log" \notin Faults => Len(rx') <= 1
    BY <1>0, <1>3, <1>6
  <2> QED
    BY <2>2, <2>3 DEF Backlog
<1> QED
  BY <1>1, <1>5, <1>6

(* A packet that answers a write counts what was taken.                     *)
Counts(packet) == packet.sub = "Write" => Got(packet, "bytesWritten") \in Nat

LEMMA AnswerCounts ==
  ASSUME PhoneOK(phone), NEW req, Req(req), Sound(req)
  PROVE  LET answer == Serve(phone, req).answer
         IN  /\ Counts(answer) /\ Counts(Refusal(req))
             /\ answer.sub = "Write" => "bytesWritten" \in DOMAIN answer.f
<1>1. PICK s : s = Serve(phone, req)
  OBVIOUS
<1>2. s.answer.sub = req.sub
  BY <1>1, Serves
<1>3. Refusal(req).sub = req.sub
  BY RefusalOK
<1>4. CASE req.sub = "Write"
  <2>1. EfsReq(req)
    BY <1>4 DEF Req, QcdmReq
  <2>2. /\ Got(Refusal(req), "bytesWritten") = 0
        /\ "bytesWritten" \in DOMAIN Refusal(req).f
    <3> DEFINE given == [error |-> 1]
    <3>1. Refusal(req) = Answer("Write", given)
      BY <1>4, <2>1 DEF Refusal, EfsReq
    <3>2. "bytesWritten" \notin DOMAIN given
      OBVIOUS
    <3> HIDE DEF given
    <3>3. "bytesWritten" \in DOMAIN Answer("Write", given).f
      BY DataAnswerFields
    <3>4. Zero("bytesWritten") = 0
      BY DEF Zero
    <3> QED
      BY <3>1, <3>2, <3>3, <3>4, GotIs
  <2>3. CASE s = Refused(phone, req)
    <3>1. s.answer = Refusal(req)
      BY <2>3 DEF Refused, Done
    <3> QED
      BY <1>1, <2>2, <3>1 DEF Counts
  <2>4. CASE s # Refused(phone, req)
    <3>1. s = Writes(phone, req)
      BY <1>1, <1>4, <2>1 DEF Serve, ServesEfs, EfsReq
    <3> DEFINE part == PartWritten(req)
               given == [fp |-> req.h, offset |-> req.offset, bytesWritten |-> Len(part)]
    <3>2. s.answer = Answer("Write", given)
      BY <2>4, <3>1 DEF Writes, Done, PartWritten
    <3>3. "bytesWritten" \in DOMAIN given /\ given["bytesWritten"] = Len(part)
      OBVIOUS
    <3> HIDE DEF given
    <3>4. "bytesWritten" \in DOMAIN Answer("Write", given).f
      BY DataAnswerFields
    <3>5. /\ Got(s.answer, "bytesWritten") = Len(part)
          /\ "bytesWritten" \in DOMAIN s.answer.f
      BY <3>2, <3>3, <3>4, GotIs
    <3>6. Len(part) \in Nat
      BY <1>4, PartWrittenIs
    <3> QED
      BY <1>1, <2>2, <3>5, <3>6 DEF Counts
  <2> QED
    BY <2>3, <2>4
<1> QED
  BY <1>1, <1>2, <1>3, <1>4 DEF Counts

LEMMA CutCounts ==
  ASSUME NEW answer, Counts(answer),
         answer.sub = "Write" => "bytesWritten" \in DOMAIN answer.f,
         NEW packet \in CutAnswers(answer)
  PROVE  Counts(packet)
<1>1. PICK S : packet = [cmd |-> answer.cmd, sub |-> answer.sub,
                         f |-> [y \in S |-> answer.f[y]]]
  <2>1. answer.cmd = "subsys"
    BY DEF CutAnswers
  <2> QED
    BY <2>1 DEF CutAnswers
<1>2. packet.sub = answer.sub /\ packet.f = [y \in S |-> answer.f[y]]
  BY <1>1
<1>3. Zero("bytesWritten") = 0
  BY DEF Zero
<1> QED
  BY <1>2, <1>3 DEF Counts, Got

LEMMA ExchangeCounts ==
  ASSUME PhoneOK(phone), rx \in Seq(Range(rx)), WrittenCounts,
         NEW req, Req(req), Sound(req), NEW x \in Exchanges(req)
  PROVE  /\ Counts(x.heard)
         /\ \A i \in 1 .. Len(x.rest) : Counts(x.rest[i])
<1>1. PICK S : S = Range(rx) \cup Sent(req)
  OBVIOUS
<1>2. \A packet \in Range(rx) : Counts(packet)
  <2>1. DOMAIN rx = 1 .. Len(rx)
    OBVIOUS
  <2> QED
    BY <2>1 DEF Range, WrittenCounts, Counts
<1>3. \A packet \in {LogPacket, BadCommand, Remainder, Silence} : Counts(packet)
  BY OddPackets DEF Counts
<1>4. \A packet \in Sent(req) : Counts(packet)
  BY <1>3, AnswerCounts, CutCounts DEF Sent
<1>5. x.heard \in S /\ x.rest \in Seq(S)
  BY <1>1, ExchangePackets
<1>6. \A packet \in S : Counts(packet)
  BY <1>1, <1>2, <1>4
<1>7. \A i \in 1 .. Len(x.rest) : x.rest[i] \in S
  BY <1>5
<1> QED
  BY <1>5, <1>6, <1>7

----------------------------------------------------------------------------
(* Every step keeps the files, and the line short.                          *)

LEMMA RequestKeepsData ==
  ASSUME Core, FilesOK(phone), WrittenCounts, Backlog,
         NEW req, Req(req), Sound(req), NEW x \in Exchanges(req), Takes(x)
  PROVE  FilesOK(phone') /\ WrittenCounts' /\ Backlog'
<1>1. /\ PhoneOK(phone) /\ rx \in Seq(Range(rx)) /\ faults \in 0 .. MaxFaults
      /\ phone' = x.phone /\ rx' = x.rest
  BY DEF Core, QueueOK, Takes
<1>2. FilesOK(phone')
  BY <1>1, ExchangePhone, ServesFiles
<1>3. \A i \in 1 .. Len(x.rest) : Counts(x.rest[i])
  BY <1>1, ExchangeCounts
<1>4. WrittenCounts'
  BY <1>1, <1>3 DEF WrittenCounts, Counts
<1>5. Backlog'
  BY <1>1, ExchangeBacklog
<1> QED
  BY <1>2, <1>4, <1>5

LEMMA EmptyLineKeepsData ==
  ASSUME Core, WrittenCounts, Backlog, rx' \in {rx, <<>>}, faults' = faults
  PROVE  WrittenCounts' /\ Backlog'
<1>1. rx \in Seq(Range(rx)) /\ faults \in 0 .. MaxFaults /\ MaxFaults \in Nat
  BY LineAssumption DEF Core, QueueOK
<1>2. CASE rx' = rx
  BY <1>2 DEF WrittenCounts, Backlog
<1>3. CASE rx' = <<>>
  <2>1. Len(rx') = 0
    BY <1>3
  <2> QED
    BY <1>1, <2>1 DEF WrittenCounts, Backlog
<1> QED
  BY <1>2, <1>3

LEMMA ShapedKeepsData ==
  ASSUME Core, DataOK, Shaped
  PROVE  FilesOK(phone') /\ WrittenCounts' /\ Backlog'
<1>0. FilesOK(phone) /\ WrittenCounts /\ Backlog /\ PutLocals /\ PhoneOK(phone)
  BY DEF DataOK, Core
<1>1. CASE \E req : Req(req) /\ Sound(req) /\ \E x \in Exchanges(req) : Takes(x)
  BY <1>0, <1>1, RequestKeepsData
<1>2. CASE UNCHANGED lineVars
  BY <1>0, <1>2, EmptyLineKeepsData DEF lineVars
<1>3. CASE PortReopens
  BY <1>0, <1>3, EmptyLineKeepsData DEF PortReopens
<1>4. CASE PhoneStarts
  <2>1. FilesOK(phone')
    BY <1>0, <1>4 DEF PhoneStarts, Booted, PhoneOK, FilesOK
  <2> QED
    BY <1>0, <1>4, <2>1, EmptyLineKeepsData DEF PhoneStarts
<1>5. CASE \E req : Keeping(req)
  BY <1>0, <1>1, <1>5 DEF Keeping, PlainReq, Req
<1>6. CASE \E req : Asking(req)
  BY <1>1, <1>6 DEF Asking, Req, QcdmReq, Sound
<1>7. CASE \E req : Taking(req)
  BY <1>1, <1>7 DEF Taking, Req
<1>8. CASE \E req, y : Giving(req, y)
  BY <1>1, <1>8 DEF Giving, Req, Sound, Closing
<1> QED
  BY <1>2, <1>3, <1>4, <1>5, <1>6, <1>7, <1>8 DEF Shaped, Quiet, Leaving, Booting

----------------------------------------------------------------------------
(* The steps of put, and what it has in its locals.                         *)

(* The method has ended, and has not returned. *)
Stopped == last'.ret # "ok" /\ call'.op = "none"
Heard(req, r) ==
  /\ r.heard # Silence
  /\ ~ SendThrows(req, r.heard)
  /\ ~ ErrorIn(r.heard)

LEMMA StoppedIs ==
  ASSUME NEW op, Fails(op) \/ Dies(op) \/ \E value, arg : Ends(op, "zero", arg, value)
  PROVE  Stopped
BY DEF Fails, Dies, Ends, Ended, NotRunning, Stopped

LEMMA FailingStops ==
  ASSUME NEW r, Failing(r)
  PROVE  Stopped
BY StoppedIs DEF Failing

(* get and put begin with their open. *)
OpenedAs(op, path, c) ==
  \E req, r :
    /\ EfsReq(req) /\ req.sub = "Open" /\ req.path = path
    /\ r \in Exchanges(req)
    /\ Takes(r)
    /\ \/ Stopped
       \/ /\ Heard(req, r)
          /\ last'.ret = "running"
          /\ DOMAIN call' = DOMAIN c \cup {"op", "x"}
          /\ call'.op = op
          /\ call'.x = <<"file", Got(r.heard, "fp"), path>>
          /\ \A y \in DOMAIN c : call'[y] = c[y]
          /\ held' = held \cup {call'.x}

LEMMA ShellOpened ==
  ASSUME NEW op, NEW path, NEW creates, NEW c, DOMAIN c \cap {"op", "x"} = {},
         ShellOpens(op, path, creates, c)
  PROVE  OpenedAs(op, path, c)
<1> DEFINE req == OpenRequest(path, creates)
<1>1. PICK r \in Exchanges(req) :
        /\ Takes(r)
        /\ \/ Dies(op)
           \/ Fails(op) /\ UNCHANGED held
           \/ LET x == <<"file", Got(r.heard, "fp"), path>>
              IN  /\ r.heard # Silence
                  /\ ~ SendThrows(req, r.heard)
                  /\ ~ ErrorIn(r.heard)
                  /\ held' = held \cup {x}
                  /\ Begins(op, c ++ [op |-> op, x |-> x])
  BY DEF ShellOpens, SendCommand
<1>4. EfsReq(req) /\ req.sub = "Open" /\ req.path = path
  BY OpenRequestIs
<1> HIDE DEF req
<1>2. CASE Dies(op) \/ (Fails(op) /\ UNCHANGED held)
  BY <1>1, <1>2, <1>4, StoppedIs DEF OpenedAs
<1> DEFINE x == <<"file", Got(r.heard, "fp"), path>>
           g == [op |-> op, x |-> x]
           d == c ++ g
<1>3. CASE /\ r.heard # Silence
           /\ ~ SendThrows(req, r.heard)
           /\ ~ ErrorIn(r.heard)
           /\ held' = held \cup {x}
           /\ Begins(op, d)
  <2>1. DOMAIN g = {"op", "x"} /\ g["op"] = op /\ g["x"] = x
    OBVIOUS
  <2> HIDE DEF g, x
  <2>2. /\ DOMAIN d = DOMAIN c \cup {"op", "x"}
        /\ d["op"] = op /\ d["x"] = x
        /\ \A y \in DOMAIN c : d[y] = c[y]
    BY <2>1 DEF ++
  <2> HIDE DEF d
  <2>3. call' = d /\ last'.ret = "running" /\ Heard(req, r) /\ held' = held \cup {x}
    BY <1>3 DEF Begins, Ended, Heard
  <2> QED
    BY <1>1, <1>4, <2>2, <2>3 DEF x, OpenedAs
<1> QED
  BY <1>1, <1>2, <1>3

LEMMA PutBegun ==
  ASSUME Shell_Put
  PROVE  \E path \in Paths, data \in Datas : \E readable, req, r :
           /\ EfsReq(req) /\ req.sub = "Open" /\ req.path = path
           /\ r \in Exchanges(req)
           /\ Takes(r)
           /\ \/ Stopped
              \/ /\ Heard(req, r)
                 /\ last'.ret = "running"
                 /\ DOMAIN call' = {"op", "x", "at", "written", "data", "readable",
                                    "old"}
                 /\ call'.op = "put"
                 /\ call'.x = <<"file", Got(r.heard, "fp"), path>>
                 /\ call'.at = IF readable /\ data # NoData THEN "write" ELSE "close"
                 /\ call'.written = 0
                 /\ call'.data = data
                 /\ call'.readable = readable
                 /\ call'.old = IF IsA(phone, path, "file")
                                THEN phone.tree[Trimmed(path)].data
                                ELSE NoData
                 /\ held' = held \cup {call'.x}
<1>1. PICK path \in Paths \ {<<>>}, data \in Datas, readable \in BOOLEAN :
        ShellOpens("put", path, TRUE,
          [at |-> IF readable /\ data # NoData THEN "write" ELSE "close",
           written |-> 0, data |-> data, readable |-> readable,
           old |-> IF IsA(phone, path, "file") THEN phone.tree[Trimmed(path)].data
                   ELSE NoData])
  BY DEF Shell_Put
<1> DEFINE old == IF IsA(phone, path, "file") THEN phone.tree[Trimmed(path)].data
                  ELSE NoData
           at == IF readable /\ data # NoData THEN "write" ELSE "close"
           c == [at |-> at, written |-> 0, data |-> data, readable |-> readable,
                 old |-> old]
<1>2. ShellOpens("put", path, TRUE, c)
  BY <1>1
<1> HIDE DEF old, at
<1>3. /\ DOMAIN c = {"at", "written", "data", "readable", "old"}
      /\ c["at"] = at /\ c["written"] = 0 /\ c["data"] = data
      /\ c["readable"] = readable /\ c["old"] = old
  OBVIOUS
<1> HIDE DEF c
<1>6. DOMAIN c \cap {"op", "x"} = {}
  BY <1>3
<1>7. \E creates : ShellOpens("put", path, creates, c)
  BY <1>2
<1>8. OpenedAs("put", path, c)
  BY <1>6, <1>7, ShellOpened
<1>4. PICK req, r :
        /\ EfsReq(req) /\ req.sub = "Open" /\ req.path = path
        /\ r \in Exchanges(req)
        /\ Takes(r)
        /\ \/ Stopped
           \/ /\ Heard(req, r)
              /\ last'.ret = "running"
              /\ DOMAIN call' = DOMAIN c \cup {"op", "x"}
              /\ call'.op = "put"
              /\ call'.x = <<"file", Got(r.heard, "fp"), path>>
              /\ \A y \in DOMAIN c : call'[y] = c[y]
              /\ held' = held \cup {call'.x}
  BY <1>8, Zenon DEF OpenedAs
<1>5. ~ Stopped =>
        /\ DOMAIN call' = {"op", "x", "at", "written", "data", "readable", "old"}
        /\ call'.at = at
        /\ call'.written = 0
        /\ call'.data = data
        /\ call'.readable = readable
        /\ call'.old = old
  BY <1>3, <1>4
<1> QED
  BY <1>4, <1>5 DEF at, old

LEMMA PutWrote ==
  ASSUME PutLocals, Put_Write
  PROVE  LET left == SubSeq(call.data, call.written + 1, Len(call.data))
             req == WriteRequest(call.x[2], left, call.written)
         IN  \E r \in Exchanges(req) :
               /\ Takes(r)
               /\ \/ Stopped
                  \/ /\ Heard(req, r)
                     /\ last'.ret = last.ret
                     /\ DOMAIN call' = DOMAIN call
                     /\ \A y \in {"op", "x", "data", "readable", "old"} :
                          call'[y] = call[y]
                     /\ call'.written = call.written + Got(r.heard, "bytesWritten")
                     /\ call'.at = IF call'.written = Len(call.data) THEN "close"
                                   ELSE "write"
                     /\ held' = held
<1> DEFINE left == SubSeq(call.data, call.written + 1, Len(call.data))
           req == WriteRequest(call.x[2], left, call.written)
           Written(r) == call.written + Got(r.heard, "bytesWritten")
           More(r) == [call EXCEPT !.written = Written(r),
                         !.at = IF Written(r) = Len(call.data) THEN "close" ELSE "write"]
<1>0. call.op = "put" /\ call.at = "write"
  BY DEF Put_Write, StepOf
<1>1. {"at", "x", "data", "written", "readable", "old"} \subseteq DOMAIN call
  BY <1>0 DEF PutLocals
<1> HIDE DEF req
<1>5. PICK r \in Exchanges(req) :
        /\ Takes(r)
        /\ CASE r.heard = Silence -> Dies("put")
             [] r.heard # Silence /\ SendThrows(req, r.heard) -> Failing(r)
             [] OTHER -> IF ErrorIn(r.heard) THEN Failing(r)
                         ELSE Goes(More(r)) /\ UNCHANGED held
  BY Zenon DEF Put_Write, SendCommand, req
<1>2. /\ Takes(r)
      /\ \/ Dies("put")
         \/ Failing(r)
         \/ /\ r.heard # Silence
            /\ ~ SendThrows(req, r.heard)
            /\ ~ ErrorIn(r.heard)
            /\ Goes(More(r))
            /\ UNCHANGED held
  <2> HIDE DEF More
  <2> QED
    BY <1>5
<1> HIDE DEF left
<1>3. CASE Dies("put") \/ Failing(r)
  BY <1>2, <1>3, StoppedIs, FailingStops DEF req, left
<1>4. CASE /\ r.heard # Silence
           /\ ~ SendThrows(req, r.heard)
           /\ ~ ErrorIn(r.heard)
           /\ Goes(More(r))
           /\ UNCHANGED held
  <2>1. call' = More(r) /\ last' = last /\ held' = held /\ Heard(req, r)
    BY <1>4 DEF Goes, Heard
  <2>2. /\ DOMAIN call' = DOMAIN call
        /\ \A y \in {"op", "x", "data", "readable", "old"} : call'[y] = call[y]
        /\ call'.written = Written(r)
        /\ call'.at = IF Written(r) = Len(call.data) THEN "close" ELSE "write"
    BY <1>1, <2>1
  <2> HIDE DEF More
  <2> QED
    BY <1>2, <2>1, <2>2 DEF req, left
<1> QED
  BY <1>2, <1>3, <1>4

LEMMA PutClosed ==
  ASSUME Put_Close
  PROVE  LET req == HandleRequest("Close", call.x[2])
         IN  \E r \in Exchanges(req) :
               /\ Takes(r)
               /\ \/ Stopped
                  \/ /\ Heard(req, r)
                     /\ call.readable
                     /\ call'.op = "none"
                     /\ last'.arg = call.x[3]
                     /\ last'.value.data = call.data
                     /\ last'.value.old = call.old
<1> DEFINE req == HandleRequest("Close", call.x[2])
           value == [data |-> call.data, old |-> call.old]
<1>0. call.op = "put"
  BY DEF Put_Close, StepOf
<1>1. PICK r \in Exchanges(req) :
        /\ Takes(r)
        /\ \/ Dies("put")
           \/ Failing(r)
           \/ /\ r.heard # Silence
              /\ ~ SendThrows(req, r.heard)
              /\ ~ ErrorIn(r.heard)
              /\ Ends("put", IF call.readable THEN "ok" ELSE "zero", call.x[3], value)
  BY DEF Put_Close, SendCommand, CloseRequest
<1> HIDE DEF req
<1>2. CASE Dies("put") \/ Failing(r)
  BY <1>1, <1>2, StoppedIs, FailingStops DEF req
<1>3. CASE /\ r.heard # Silence
           /\ ~ SendThrows(req, r.heard)
           /\ ~ ErrorIn(r.heard)
           /\ Ends("put", IF call.readable THEN "ok" ELSE "zero", call.x[3], value)
  <2>1. CASE ~ call.readable
    BY <1>1, <1>3, <2>1, StoppedIs DEF req
  <2>2. CASE call.readable
    <3>1. /\ call'.op = "none" /\ last'.arg = call.x[3]
          /\ last'.value.data = call.data
          /\ last'.value.old = call.old
      BY <1>3, <2>2 DEF Ends, Ended, NotRunning
    <3> QED
      BY <1>1, <1>3, <2>2, <3>1 DEF req, Heard
  <2> QED
    BY <2>1, <2>2
<1> QED
  BY <1>1, <1>2, <1>3

LEMMA DataStep ==
  ASSUME OpensComeWhole, IInv, DataOK, [Next]_vars
  PROVE  DataOK'
<1>0. /\ Core /\ CallOK /\ LastOK /\ PutLocals
      /\ rx \in Seq(Range(rx)) /\ PhoneOK(phone) /\ FilesOK(phone) /\ WrittenCounts
  BY InvariantParts DEF DataOK, Core, QueueOK
<1>1. CASE UNCHANGED vars
  BY <1>1 DEF vars, lineVars, qcdmVars, efsVars, DataOK, WrittenCounts, Backlog,
              PutLocals
<1>2. CASE Next
  <2>1. Shaped
    BY <1>0, <1>2, ProgramSteps, ContinueSteps, ShellSteps, EndingSteps DEF Next
  <2>2. FilesOK(phone') /\ WrittenCounts' /\ Backlog'
    BY <1>0, <2>1, ShapedKeepsData
  <2>3. Elsewhere("put") => PutLocals'
    BY DEF Elsewhere, PutLocals
  <2>4. Stopped => PutLocals'
    BY DEF Stopped, PutLocals
  <2>5. ASSUME Shell_Put
        PROVE  PutLocals'
    <3>1. \/ Stopped
          \/ /\ DOMAIN call' = {"op", "x", "at", "written", "data", "readable", "old"}
             /\ call'.written = 0
             /\ call'.data \in Datas
      BY <2>5, PutBegun
    <3> QED
      BY <2>4, <3>1, DatasAssumption DEF PutLocals
  <2>6. ASSUME Put_Write
        PROVE  PutLocals'
    <3> DEFINE left == SubSeq(call.data, call.written + 1, Len(call.data))
               req == WriteRequest(call.x[2], left, call.written)
    <3>1. PICK r \in Exchanges(req) :
            \/ Stopped
            \/ /\ Heard(req, r)
               /\ DOMAIN call' = DOMAIN call
               /\ \A y \in {"op", "x", "data", "readable", "old"} :
                    call'[y] = call[y]
               /\ call'.written = call.written + Got(r.heard, "bytesWritten")
      BY <1>0, <2>6, PutWrote
    <3>2. call.op = "put" /\ call.data \in Seq(Nat) /\ call.written \in Nat
      BY <1>0, <2>6 DEF PutLocals, Put_Write, StepOf
    <3>3. left \in Seq(Nat)
      <4>1. Len(call.data) \in 0 .. Len(call.data)
        BY <3>2
      <4> QED
        BY <3>2, <4>1, PartIs
    <3> HIDE DEF left
    <3>4. /\ EfsReq(req) /\ req.sub = "Write"
          /\ req.data = left /\ req.offset = call.written
      BY WriteRequestIs
    <3> HIDE DEF req
    <3>5. Req(req) /\ Sound(req)
      BY <3>2, <3>3, <3>4 DEF Req, Sound
    <3>6. Counts(r.heard)
      BY <1>0, <3>5, ExchangeCounts
    <3>7. Heard(req, r) => Got(r.heard, "bytesWritten") \in Nat
      BY <3>4, <3>6 DEF Heard, SendThrows, Counts
    <3>8. CASE ~ Stopped
      <4>1. call'.data = call.data /\ call'.written \in Nat
        BY <3>1, <3>2, <3>7, <3>8
      <4> QED
        BY <1>0, <3>1, <3>2, <3>8, <4>1 DEF PutLocals
    <3> QED
      BY <2>4, <3>8
  <2>7. ASSUME Put_Close
        PROVE  PutLocals'
    <3>1. call'.op = "none"
      BY <2>7, PutClosed DEF Stopped
    <3> QED
      BY <3>1 DEF PutLocals
  <2>8. PutLocals'
    BY <1>0, <1>2, <2>3, <2>5, <2>6, <2>7, StepsElsewhere DEF OwnStep, Long
  <2> QED
    BY <2>2, <2>8 DEF DataOK
<1> QED
  BY <1>1, <1>2

LEMMA DataBegins ==
  ASSUME Init
  PROVE  DataOK
<1>1. /\ phone = NewPhone /\ rx = <<>> /\ faults = MaxFaults /\ call.op = "none"
  BY DEF Init, LineInit, EfsInit, NotRunning
<1>2. FilesOK(phone)
  BY <1>1, PhoneAssumption DEF NewPhone, FilesOK
<1>3. Len(rx) = 0
  BY <1>1
<1> QED
  BY <1>1, <1>2, <1>3, LineAssumption DEF DataOK, WrittenCounts, PutLocals, Backlog

(* Every open file is one, with numbers in it; what put counts and writes   *)
(* is of a type; the line is behind by no more packets than faults.         *)
THEOREM DataHolds ==
  ASSUME OpensComeWhole
  PROVE  Spec => []DataOK
<1>1. Init => DataOK
  BY DataBegins
<1>2. IInv /\ DataOK /\ [Next]_vars => DataOK'
  BY DataStep
<1> QED
  BY <1>1, <1>2, DiagInvariantHolds, PTL DEF Spec
----------------------------------------------------------------------------
(* What a request that is answered leaves of a line that is in step, or     *)
(* behind.                                                                  *)

Stray == {"none", "Open", "OpenDir"}

LEMMA NeverDoomed ==
  ASSUME NEW queue, Len(queue) \in Nat, NEW mode
  PROVE  ~ DoomedBy(queue, mode, 0)
BY DEF DoomedBy

LEMMA DoomedMono ==
  ASSUME NEW queue, Len(queue) \in Nat, NEW mode, NEW m \in Nat, NEW n \in Nat, m <= n,
         DoomedBy(queue, mode, m)
  PROVE  DoomedBy(queue, mode, n)
BY DEF DoomedBy

(* A stray packet is one nearer when another has been heard.                *)
LEMMA StrayComesNearer ==
  ASSUME NEW x, NEW S, NEW queue \in Seq(S), TakenFrom(x, queue),
         NEW n \in Nat, NEW j \in 1 .. Len(queue), j <= n + 1,
         queue[j].sub \in Stray, x.heard.sub \notin Stray, NEW mode
  PROVE  DoomedBy(x.rest, mode, n)
<1>1. /\ Len(x.rest) = IF queue = <<>> THEN 0 ELSE Len(queue) - 1
      /\ queue # <<>> => x.heard = queue[1]
      /\ \A i \in 1 .. Len(x.rest) : x.rest[i] = queue[i + 1]
  BY TakenPackets
<1>2. queue # <<>> /\ Len(queue) \in Nat
  OBVIOUS
<1>3. j # 1
  BY <1>1, <1>2
<1>4. j - 1 \in 1 .. Len(x.rest) /\ j - 1 <= n /\ (j - 1) + 1 = j
  BY <1>1, <1>2, <1>3
<1>5. x.rest[j - 1].sub \in Stray
  BY <1>1, <1>4
<1> QED
  BY <1>4, <1>5 DEF DoomedBy, Stray

(* What is put behind a stray packet does not keep it from being heard. *)
LEMMA StrayInFront ==
  ASSUME rx \in Seq(Range(rx)), NEW x, NEW packet, TakenFrom(x, Append(rx, packet)),
         NEW n \in Nat, NEW j \in 1 .. Len(rx), j <= n + 1,
         rx[j].sub \in Stray, x.heard.sub \notin Stray, NEW mode
  PROVE  DoomedBy(x.rest, mode, n)
<1>1. PICK queue : queue = Append(rx, packet)
  OBVIOUS
<1>2. /\ queue \in Seq(Range(queue))
      /\ Len(queue) = Len(rx) + 1
      /\ \A i \in 1 .. Len(rx) : queue[i] = rx[i]
  BY <1>1, AppendIs
<1>3. j \in 1 .. Len(queue) /\ queue[j].sub \in Stray /\ TakenFrom(x, queue)
  BY <1>1, <1>2
<1> QED
  BY <1>2, <1>3, StrayComesNearer

(* A packet that is put on an empty line is the one that is heard.          *)
LEMMA OnlyPacket ==
  ASSUME NEW x, NEW packet, NEW queue, queue = Append(<<>>, packet), TakenFrom(x, queue)
  PROVE  x.heard = packet /\ x.rest = <<>>
<1>1. <<>> \in Seq(Range(<<>>))
  BY TypedByRange
<1>2. queue # <<>> /\ Head(queue) = packet /\ Tail(queue) = <<>>
  BY <1>1, AppendIs
<1> QED
  BY <1>2 DEF TakenFrom

LEMMA SteadyAnswer ==
  ASSUME PhoneOK(phone), rx \in Seq(Range(rx)),
         NEW req, EfsReq(req),
         req.sub \in {"Close", "CloseDir", "Read", "ReadDir", "Write", "Fstat"},
         NEW x \in Exchanges(req), Takes(x),
         x.heard # Silence, ~ SendThrows(req, x.heard),
         IF req.sub = "ReadDir" THEN ~ Refuses(x) ELSE ~ ErrorIn(x.heard),
         NEW n \in Nat, DoomedBy(rx, phone.mode, n + 1) \/ InStep
  PROVE  \/ DoomedBy(rx', phone'.mode, n)
         \/ /\ InStep
            /\ phone' = Serve(phone, req).phone
            /\ rx' = <<Remainder>>
         \/ /\ InStep /\ InStep'
            /\ phone' = Serve(phone, req).phone
            /\ x.heard = Serve(phone, req).answer
<1>0. phone' = x.phone /\ rx' = x.rest
  BY DEF Takes
<1>1. /\ x.heard # Silence /\ x.heard.sub = req.sub
      /\ x.heard.sub \notin Stray
  BY DEF SendThrows, Stray
<1>2. ASSUME NEW j \in 1 .. Len(rx), j <= n + 1, rx[j].sub \in Stray
      PROVE  DoomedBy(x.rest, x.phone.mode, n)
  <2>1. rx # <<>>
    BY <1>2
  <2>2. CASE Gone(x)
    BY <1>1, <1>2, <2>2, StrayComesNearer DEF Gone
  <2>3. CASE Answered(req, x)
    BY <1>1, <1>2, <2>3, StrayInFront DEF Answered
  <2>4. CASE Logged(req, x)
    <3>1. PICK queue : queue = Append(rx, LogPacket)
      OBVIOUS
    <3>2. PICK answer : answer = Serve(phone, req).answer
      OBVIOUS
    <3>3. PICK both : both = Append(queue, answer)
      OBVIOUS
    <3>4. queue \in Seq(Range(queue)) /\ rx \o <<LogPacket, answer>> = both
      <4>1. PICK log : log = LogPacket
        OBVIOUS
      <4>2. /\ Append(rx, log) \in Seq(Range(Append(rx, log)))
            /\ rx \o <<log, answer>> = Append(Append(rx, log), answer)
        <5>1. rx \in Seq(Range(rx))
          OBVIOUS
        <5> QED
          BY <5>1, LoggedTwice
      <4> QED
        BY <3>1, <3>3, <4>1, <4>2
    <3>5. TakenFrom(x, both)
      BY <2>4, <3>2, <3>4 DEF Logged
    <3>6. Len(queue) = Len(rx) + 1 /\ \A i \in 1 .. Len(rx) : queue[i] = rx[i]
      BY <3>1, AppendIs
    <3>7. /\ both \in Seq(Range(both)) /\ Len(both) = Len(queue) + 1
          /\ \A i \in 1 .. Len(queue) : both[i] = queue[i]
      BY <3>3, <3>4, AppendIs
    <3>8. j \in 1 .. Len(both) /\ both[j].sub \in Stray
      BY <1>2, <3>6, <3>7
    <3> QED
      BY <1>1, <1>2, <3>5, <3>7, <3>8, StrayComesNearer
  <2>5. CASE Turned(req, x)
    BY <1>1, <1>2, <2>5, StrayInFront DEF Turned
  <2> QED
    BY <2>1, <2>2, <2>3, <2>4, <2>5, ExchangeForms DEF Late, Shortened
<1>3. CASE phone.mode = "gone" /\ Len(rx) < n + 1
  <2>1. Gone(x)
    BY <1>3, ExchangeForms DEF Gone
  <2>2. TakenFrom(x, rx) /\ x.phone = phone
    BY <2>1 DEF Gone
  <2>3. rx # <<>>
    BY <1>1, <2>2 DEF TakenFrom
  <2>4. Len(x.rest) = Len(rx) - 1 /\ Len(rx) \in Nat
    BY <2>2, <2>3, TakenPackets
  <2>5. Len(x.rest) < n
    BY <1>3, <2>4
  <2> QED
    BY <1>0, <1>3, <2>2, <2>5 DEF DoomedBy
<1>4. CASE InStep
  <2>0. rx = <<>> /\ phone.mode = "diag"
    BY <1>4 DEF InStep
  <2>1. Serve(phone, req).phone.mode = "diag"
    BY <2>0, Serves DEF Req
  <2>2. CASE Answered(req, x)
    <3>1. x.heard = Serve(phone, req).answer /\ x.rest = <<>>
      BY <2>0, <2>2, OnlyPacket DEF Answered
    <3> QED
      BY <1>0, <1>4, <2>1, <2>2, <3>1 DEF Answered, InStep
  <2>3. CASE Logged(req, x)
    <3>1. x.heard = LogPacket
      <4>1. PICK queue : queue = <<>> \o <<LogPacket, Serve(phone, req).answer>>
        OBVIOUS
      <4>2. Head(queue) = LogPacket /\ queue # <<>>
        BY <4>1
      <4> QED
        BY <2>0, <2>3, <4>1, <4>2 DEF Logged, TakenFrom
    <3> QED
      BY <1>1, <3>1, OddPackets DEF Stray
  <2>4. CASE Turned(req, x)
    <3>1. x.heard \in {Refusal(req), BadCommand}
      BY <2>0, <2>4, OnlyPacket DEF Turned
    <3>2. req.sub # "ReadDir" /\ ~ ErrorIn(x.heard)
      BY <2>4 DEF Turned, Refuses
    <3> QED
      BY <1>1, <3>1, <3>2, OddPackets, RefusalErrs DEF Stray
  <2>5. CASE Late(req, x)
    BY <1>1, <2>5 DEF Late
  <2>6. CASE Shortened(req, x)
    BY <1>0, <1>4, <2>6 DEF Shortened
  <2> QED
    BY <2>0, <2>2, <2>3, <2>4, <2>5, <2>6, ExchangeForms DEF Gone
<1> QED
  BY <1>0, <1>2, <1>3, <1>4 DEF DoomedBy, Stray

LEMMA SteadyExchange ==
  ASSUME PhoneOK(phone), rx \in Seq(Range(rx)),
         NEW req, EfsReq(req),
         req.sub \in {"Close", "CloseDir", "Read", "Write", "Fstat"},
         NEW x \in Exchanges(req), Takes(x), Heard(req, x),
         NEW n \in Nat, DoomedBy(rx, phone.mode, n + 1) \/ InStep
  PROVE  \/ DoomedBy(rx', phone'.mode, n)
         \/ /\ InStep
            /\ phone' = Serve(phone, req).phone
            /\ rx' = <<Remainder>>
         \/ /\ InStep /\ InStep'
            /\ phone' = Serve(phone, req).phone
            /\ x.heard = Serve(phone, req).answer
BY SteadyAnswer DEF Heard

(* A method that begins on a line that is behind finds its own answer, or a *)
(* packet that is none, no later than the line was behind.                  *)
LEMMA OpeningExchange ==
  ASSUME OpensComeWhole, PhoneOK(phone), rx \in Seq(Range(rx)),
         NEW req, EfsReq(req), req.sub \in {"Open", "OpenDir"},
         NEW x \in Exchanges(req), Takes(x), Heard(req, x),
         NEW n \in Nat, Len(rx) <= n
  PROVE  \/ DoomedBy(rx', phone'.mode, n)
         \/ /\ InStep /\ InStep'
            /\ phone' = Serve(phone, req).phone
            /\ x.heard = Serve(phone, req).answer
<1>0. phone' = x.phone /\ rx' = x.rest /\ Len(rx) \in Nat
  BY DEF Takes
<1>1. x.heard # Silence /\ x.heard.sub = req.sub /\ ~ ErrorIn(x.heard)
  BY DEF Heard, SendThrows
<1>2. ~ Late(req, x) /\ ~ Shortened(req, x)
  BY <1>1 DEF Late, Shortened, OpensComeWhole
<1>3. ASSUME rx # <<>>, NEW packet, packet.sub \in Stray,
             TakenFrom(x, Append(rx, packet))
      PROVE  DoomedBy(x.rest, x.phone.mode, n)
  <2>1. PICK queue : queue = Append(rx, packet)
    OBVIOUS
  <2>2. /\ queue \in Seq(Range(queue)) /\ queue # <<>>
        /\ Len(queue) = Len(rx) + 1 /\ queue[Len(rx) + 1] = packet
    BY <2>1, AppendIs
  <2>3. /\ Len(x.rest) = Len(queue) - 1
        /\ \A i \in 1 .. Len(x.rest) : x.rest[i] = queue[i + 1]
    BY <1>3, <2>1, <2>2, TakenPackets
  <2>4. Len(rx) \in 1 .. Len(x.rest)
    BY <1>0, <1>3, <2>2, <2>3
  <2>5. x.rest[Len(rx)].sub \in Stray
    BY <1>3, <2>2, <2>3, <2>4
  <2> QED
    BY <2>4, <2>5 DEF DoomedBy, Stray
<1>4. Serve(phone, req).answer.sub = req.sub /\ Refusal(req).sub = req.sub
  BY Serves, RefusalOK DEF Req
<1>5. CASE rx # <<>>
  <2>1. CASE Gone(x)
    <3>1. TakenFrom(x, rx) /\ x.phone = phone /\ phone.mode = "gone"
      BY <2>1 DEF Gone, PhoneOK
    <3>2. Len(x.rest) = Len(rx) - 1
      BY <1>5, <3>1, TakenPackets
    <3>3. Len(x.rest) < n
      BY <1>0, <3>2
    <3> QED
      BY <1>0, <3>1, <3>3 DEF DoomedBy
  <2>2. CASE Answered(req, x)
    BY <1>0, <1>3, <1>4, <1>5, <2>2 DEF Answered, Stray
  <2>3. CASE Turned(req, x)
    BY <1>0, <1>3, <1>4, <1>5, <2>3, OddPackets DEF Turned, Stray
  <2>4. CASE Logged(req, x)
    <3>1. PICK queue : queue = Append(rx, LogPacket)
      OBVIOUS
    <3>2. PICK answer : answer = Serve(phone, req).answer
      OBVIOUS
    <3>3. PICK both : both = Append(queue, answer)
      OBVIOUS
    <3>4. queue \in Seq(Range(queue)) /\ rx \o <<LogPacket, answer>> = both
      <4>1. PICK log : log = LogPacket
        OBVIOUS
      <4>2. /\ Append(rx, log) \in Seq(Range(Append(rx, log)))
            /\ rx \o <<log, answer>> = Append(Append(rx, log), answer)
        <5>1. rx \in Seq(Range(rx))
          OBVIOUS
        <5> QED
          BY <5>1, LoggedTwice
      <4> QED
        BY <3>1, <3>3, <4>1, <4>2
    <3>5. TakenFrom(x, both)
      BY <2>4, <3>2, <3>4 DEF Logged
    <3>6. Len(queue) = Len(rx) + 1 /\ queue[Len(rx) + 1] = LogPacket
      BY <3>1, AppendIs
    <3>7. /\ both \in Seq(Range(both)) /\ Len(both) = Len(queue) + 1 /\ both # <<>>
          /\ \A i \in 1 .. Len(queue) : both[i] = queue[i]
      BY <3>3, <3>4, AppendIs
    <3>8. /\ Len(x.rest) = Len(both) - 1
          /\ \A i \in 1 .. Len(x.rest) : x.rest[i] = both[i + 1]
      BY <3>5, <3>7, TakenPackets
    <3>9. Len(rx) \in 1 .. Len(x.rest) /\ Len(rx) + 1 \in 1 .. Len(queue)
      BY <1>0, <1>5, <3>6, <3>7, <3>8
    <3>10. x.rest[Len(rx)].sub \in Stray
      BY <3>6, <3>7, <3>8, <3>9, OddPackets DEF Stray
    <3> QED
      BY <1>0, <3>9, <3>10 DEF DoomedBy, Stray
  <2> QED
    BY <1>2, <2>1, <2>2, <2>3, <2>4, ExchangeForms
<1>6. CASE rx = <<>>
  <2>1. ~ Gone(x)
    BY <1>1, <1>6 DEF Gone, TakenFrom
  <2>2. phone.mode = "diag" /\ Serve(phone, req).phone.mode = "diag"
    BY <2>1, ExchangeForms, Serves DEF Req
  <2>3. CASE Answered(req, x)
    <3>1. x.heard = Serve(phone, req).answer /\ x.rest = <<>>
      BY <1>6, <2>3, OnlyPacket DEF Answered
    <3> QED
      BY <1>0, <1>6, <2>2, <2>3, <3>1 DEF Answered, InStep
  <2>4. CASE Turned(req, x)
    <3>1. x.heard \in {Refusal(req), BadCommand}
      BY <1>6, <2>4, OnlyPacket DEF Turned
    <3> QED
      BY <1>1, <3>1, OddPackets, RefusalErrs
  <2>5. CASE Logged(req, x)
    <3>1. x.heard = LogPacket
      <4>1. PICK queue : queue = <<>> \o <<LogPacket, Serve(phone, req).answer>>
        OBVIOUS
      <4>2. Head(queue) = LogPacket /\ queue # <<>>
        BY <4>1
      <4> QED
        BY <1>6, <2>5, <4>1, <4>2 DEF Logged, TakenFrom
    <3> QED
      BY <1>1, <3>1, OddPackets
  <2> QED
    BY <1>2, <2>1, <2>3, <2>4, <2>5, ExchangeForms
<1> QED
  BY <1>5, <1>6

----------------------------------------------------------------------------
(* What a request that is answered gives a method that goes through a file. *)

LEMMA OwnFile ==
  ASSUME IInv, FilesOK(phone), InStep,
         Running, CallKind(call.op) = "file", call.at # "open",
         NEW req, req.h = call.x[2]
  PROVE  /\ IsOpen(phone, "file", req.h)
         /\ phone.open[<<"file", req.h>>] = Trimmed(call.x[3])
         /\ FileOf(phone, req) = OpenData
         /\ OpenData \in Seq(Nat)
<1>1. call.x \in held /\ call.x[1] = "file"
  BY DEF IInv, CallOK
<1>2. HandleOf(call.x) = <<"file", req.h>>
  BY <1>1 DEF HandleOf
<1>3. HandleOf(call.x) \in HeldHandles
  BY <1>1 DEF HeldHandles
<1>4. <<"file", req.h>> \in DOMAIN phone.open
  BY <1>2, <1>3 DEF IInv, OpenHandles
<1>5. phone.open[<<"file", req.h>>] = Trimmed(call.x[3])
  BY <1>1, <1>2 DEF IInv, OpenedFor
<1>6. <<"file", req.h>>[1] = "file"
  OBVIOUS
<1>7. phone.tree[phone.open[<<"file", req.h>>]].data \in Seq(Nat)
  BY <1>4, <1>6 DEF FilesOK
<1> QED
  BY <1>4, <1>5, <1>7 DEF IsOpen, FileOf, OpenData

LEMMA OwnData ==
  ASSUME IInv, FilesOK(phone), InStep,
         Running, CallKind(call.op) = "file", call.at # "open"
  PROVE  OpenData \in Seq(Nat)
<1>1. PICK req : req = [h |-> call.x[2]]
  OBVIOUS
<1>2. req.h = call.x[2]
  BY <1>1
<1> QED
  BY <1>2, OwnFile

LEMMA RemainderDooms ==
  ASSUME NEW queue, queue = <<Remainder>>, NEW mode, NEW n \in Nat, n >= 1
  PROVE  DoomedBy(queue, mode, n)
<1>1. Remainder.sub = "none"
  BY OddPackets
<1> HIDE DEF Remainder
<1>2. 1 \in 1 .. Len(queue) /\ queue[1].sub = "none"
  BY <1>1
<1> QED
  BY <1>2 DEF DoomedBy

LEMMA FstatAnswered ==
  ASSUME IInv, FilesOK(phone),
         Running, CallKind(call.op) = "file", call.at # "open",
         NEW req, req = HandleRequest("Fstat", call.x[2]),
         NEW r \in Exchanges(req), Takes(r), Heard(req, r),
         NEW n \in Nat, n >= 1, Doomed(n + 1) \/ InStep
  PROVE  \/ Doomed(n)'
         \/ /\ InStep /\ InStep' /\ phone' = phone
            /\ Got(r.heard, "size") = Len(OpenData)
            /\ OpenData \in Seq(Nat)
<1>1. EfsReq(req) /\ req.sub = "Fstat" /\ req.h = call.x[2]
  BY AnswerTable, HandleRequestIs
<1>2. PhoneOK(phone) /\ rx \in Seq(Range(rx))
  BY DEF IInv, QueueOK
<1>3. \/ DoomedBy(rx', phone'.mode, n)
      \/ InStep /\ rx' = <<Remainder>>
      \/ /\ InStep /\ InStep'
         /\ phone' = Serve(phone, req).phone
         /\ r.heard = Serve(phone, req).answer
  BY <1>1, <1>2, SteadyExchange DEF Doomed
<1>4. CASE DoomedBy(rx', phone'.mode, n) \/ rx' = <<Remainder>>
  BY <1>4, RemainderDooms DEF Doomed
<1>5. CASE /\ InStep /\ InStep'
           /\ phone' = Serve(phone, req).phone
           /\ r.heard = Serve(phone, req).answer
  <2>1. PICK s : s = Serve(phone, req)
    OBVIOUS
  <2>2. ~ ErrorIn(s.answer)
    BY <1>5, <2>1 DEF Heard
  <2>3. s.phone = phone /\ Got(s.answer, "size") = Len(FileOf(phone, req))
    BY <1>1, <2>1, <2>2, FstatServed
  <2>4. FileOf(phone, req) = OpenData /\ OpenData \in Seq(Nat)
    BY <1>1, <1>5, OwnFile
  <2> QED
    BY <1>5, <2>1, <2>3, <2>4
<1> QED
  BY <1>3, <1>4, <1>5

LEMMA ReadRequestIs ==
  ASSUME NEW h, NEW size, NEW offset
  PROVE  LET r == ReadRequest(h, size, offset)
         IN  /\ EfsReq(r) /\ r.sub = "Read"
             /\ r.h = h /\ r.size = size /\ r.offset = offset
<1> DEFINE p == HandleRequest("Read", h)
           q == [p EXCEPT !.room = MaxPacket]
           f == [size |-> size, offset |-> offset]
<1>1. /\ EfsReq(p) /\ p.sub = "Read" /\ p.h = h
      /\ DOMAIN p = {"cmd", "sub", "room", "h"}
  BY AnswerTable, HandleRequestIs
<1> HIDE DEF p
<1>5. /\ EfsReq(q) /\ q.sub = "Read" /\ q.h = h
      /\ DOMAIN q = {"cmd", "sub", "room", "h"}
  BY <1>1 DEF EfsReq
<1>2. DOMAIN f = {"size", "offset"} /\ f["size"] = size /\ f["offset"] = offset
  OBVIOUS
<1> DEFINE r == q ++ f
<1>3. ReadRequest(h, size, offset) = r
  BY DEF ReadRequest, InLargeBuffer, p
<1> HIDE DEF q, f
<1>4. /\ r["cmd"] = q["cmd"] /\ r["sub"] = q["sub"] /\ r["h"] = q["h"]
      /\ r["size"] = f["size"] /\ r["offset"] = f["offset"]
  BY <1>2, <1>5, FieldsAre
<1> HIDE DEF r
<1> QED
  BY <1>2, <1>3, <1>4, <1>5 DEF EfsReq

LEMMA ReceivedIs ==
  ASSUME NEW packet, NEW part \in Seq(Nat),
         Got(packet, "bytesRead") = Len(part), Got(packet, "data") = part
  PROVE  Received(packet) = part
<1>1. Received(packet) =
        [i \in 1 .. Len(part) |-> IF i \in DOMAIN part THEN part[i] ELSE 0]
  BY DEF Received
<1> QED
  BY <1>1

LEMMA ReadAnswered ==
  ASSUME IInv, FilesOK(phone),
         Running, CallKind(call.op) = "file", call.at # "open",
         NEW size, NEW offset,
         NEW req, req = ReadRequest(call.x[2], size, offset),
         NEW r \in Exchanges(req), Takes(r), Heard(req, r),
         NEW n \in Nat, n >= 1,
         Doomed(n + 1) \/ (InStep /\ size \in Nat /\ offset \in 0 .. Len(OpenData))
  PROVE  \/ Doomed(n)'
         \/ /\ InStep /\ InStep' /\ phone' = phone
            /\ OpenData \in Seq(Nat)
            /\ size \in Nat /\ offset \in 0 .. Len(OpenData)
            /\ \E m \in offset .. Len(OpenData) :
                 /\ m = Min({Len(OpenData), offset + Min({size, MaxRead})})
                 /\ Received(r.heard) = SubSeq(OpenData, offset + 1, m)
<1>1. /\ EfsReq(req) /\ req.sub = "Read" /\ req.h = call.x[2]
      /\ req.size = size /\ req.offset = offset
  BY ReadRequestIs
<1>2. PhoneOK(phone) /\ rx \in Seq(Range(rx))
  BY DEF IInv, QueueOK
<1>3. \/ DoomedBy(rx', phone'.mode, n)
      \/ InStep /\ rx' = <<Remainder>>
      \/ /\ InStep /\ InStep'
         /\ phone' = Serve(phone, req).phone
         /\ r.heard = Serve(phone, req).answer
  BY <1>1, <1>2, SteadyExchange DEF Doomed
<1>4. CASE DoomedBy(rx', phone'.mode, n) \/ rx' = <<Remainder>>
  BY <1>4, RemainderDooms DEF Doomed
<1>5. ASSUME InStep, InStep', ~ Doomed(n + 1),
             phone' = Serve(phone, req).phone,
             r.heard = Serve(phone, req).answer
      PROVE  /\ phone' = phone /\ OpenData \in Seq(Nat)
             /\ size \in Nat /\ offset \in 0 .. Len(OpenData)
             /\ \E m \in offset .. Len(OpenData) :
                  /\ m = Min({Len(OpenData), offset + Min({size, MaxRead})})
                  /\ Received(r.heard) = SubSeq(OpenData, offset + 1, m)
  <2>1. PICK s : s = Serve(phone, req)
    OBVIOUS
  <2>2. ~ ErrorIn(s.answer)
    BY <1>5, <2>1 DEF Heard
  <2>3. PICK part : part = PartRead(phone, req)
    OBVIOUS
  <2>4. /\ s.phone = phone
        /\ Got(s.answer, "bytesRead") = Len(part)
        /\ Got(s.answer, "data") = part
    BY <1>1, <2>1, <2>2, <2>3, ReadServed
  <2>5. FileOf(phone, req) = OpenData /\ OpenData \in Seq(Nat)
    BY <1>1, <1>5, OwnFile
  <2>6. size \in Nat /\ offset \in 0 .. Len(OpenData)
    BY <1>5
  <2>7. PICK data : data = OpenData
    OBVIOUS
  <2>8. PICK m : m = Min({Len(data), offset + Min({size, MaxRead})})
    OBVIOUS
  <2>9. part = SubSeq(data, offset + 1, m)
    BY <1>1, <2>3, <2>5, <2>7, <2>8 DEF PartRead
  <2>10. m \in offset .. Len(data)
    <3>1. PICK k : k = Min({size, MaxRead})
      OBVIOUS
    <3>2. k \in Nat
      BY <2>6, <3>1, MinIs, PhoneAssumption
    <3>3. Len(data) \in Nat /\ offset + k \in Int
      BY <2>5, <2>6, <2>7, <3>2
    <3>4. PICK b : b = offset + k
      OBVIOUS
    <3>5. PICK a : a = Len(data)
      OBVIOUS
    <3>6. m = Min({a, b})
      BY <2>8, <3>1, <3>4, <3>5
    <3>7. m = IF a <= b THEN a ELSE b
      BY <3>3, <3>4, <3>5, <3>6, MinIs
    <3> QED
      BY <2>6, <2>7, <3>2, <3>3, <3>4, <3>5, <3>7
  <2>11. part \in Seq(Nat)
    <3>1. m \in 0 .. Len(data) /\ offset \in Nat
      BY <2>6, <2>7, <2>10
    <3> QED
      BY <2>5, <2>7, <2>9, <3>1, PartIs
  <2>12. Received(r.heard) = part
    BY <1>5, <2>1, <2>4, <2>11, ReceivedIs
  <2> QED
    BY <1>5, <2>1, <2>4, <2>5, <2>6, <2>7, <2>8, <2>9, <2>10, <2>12
<1>6. ASSUME Doomed(n + 1), InStep
      PROVE  FALSE
  BY <1>6 DEF Doomed, DoomedBy, InStep
<1> QED
  BY <1>3, <1>4, <1>5, <1>6

----------------------------------------------------------------------------
(* read of a path.                                                          *)

LEMMA ShortLine ==
  ASSUME DataOK, faults \in 0 .. MaxFaults, NEW n \in Nat, n >= 1, FewLogs(n),
         Len(rx) \in Nat
  PROVE  Len(rx) <= n
BY LineAssumption DEF DataOK, Backlog, FewLogs

LEMMA ReadPathBegun ==
  ASSUME ReadPath
  PROVE  \/ Stopped
         \/ /\ last'.ret = "running"
            /\ call'.op = "readPath" /\ call'.at = "fstat"
            /\ \E req : \E r \in Exchanges(req) :
                 EfsReq(req) /\ req.sub = "Open" /\ Takes(r) /\ Heard(req, r)
<1>1. PICK path \in Paths :
        IF path = <<>> THEN Invalid("readPath")
        ELSE SendCommand(OpenRequest(path, FALSE), Dies("readPath"),
               LAMBDA r : Fails("readPath") /\ UNCHANGED held,
               LAMBDA r : IF ErrorIn(r.heard) THEN Fails("readPath") /\ UNCHANGED held
                          ELSE LET x == <<"file", Got(r.heard, "fp"), path>>
                               IN  /\ held' = held \cup {x}
                                   /\ Begins("readPath", [op |-> "readPath",
                                        at |-> "fstat", x |-> x]))
  BY Zenon DEF ReadPath
<1>2. CASE path = <<>>
  BY <1>1, <1>2, StoppedIs DEF Invalid
<1>3. CASE path # <<>>
  <2> DEFINE req == OpenRequest(path, FALSE)
             c(r) == [op |-> "readPath", at |-> "fstat",
                      x |-> <<"file", Got(r.heard, "fp"), path>>]
  <2>1. PICK r \in Exchanges(req) :
          /\ Takes(r)
          /\ \/ Dies("readPath")
             \/ Fails("readPath")
             \/ /\ r.heard # Silence
                /\ ~ SendThrows(req, r.heard)
                /\ ~ ErrorIn(r.heard)
                /\ Begins("readPath", c(r))
    BY <1>1, <1>3 DEF SendCommand
  <2>2. EfsReq(req) /\ req.sub = "Open"
    BY OpenRequestIs
  <2> HIDE DEF req
  <2>3. CASE Dies("readPath") \/ Fails("readPath")
    BY <2>3, StoppedIs
  <2>4. CASE /\ r.heard # Silence
             /\ ~ SendThrows(req, r.heard)
             /\ ~ ErrorIn(r.heard)
             /\ Begins("readPath", c(r))
    BY <2>1, <2>2, <2>4 DEF Begins, Ended, Heard
  <2> QED
    BY <2>1, <2>3, <2>4
<1> QED
  BY <1>2, <1>3

LEMMA ReadPathStat ==
  ASSUME ReadPath_Fstat
  PROVE  \/ Stopped
         \/ /\ last'.ret = last.ret
            /\ call'.op = "readPath" /\ call'.at = "read" /\ call'.x = call.x
            /\ \E req : \E r \in Exchanges(req) :
                 /\ req = HandleRequest("Fstat", call.x[2])
                 /\ Takes(r) /\ Heard(req, r)
                 /\ call'.size = Got(r.heard, "size")
<1> DEFINE req == HandleRequest("Fstat", call.x[2])
           c(r) == [op |-> "readPath", at |-> "read", x |-> call.x,
                    size |-> Got(r.heard, "size")]
<1>0. call.op = "readPath"
  BY DEF ReadPath_Fstat
<1>1. PICK r \in Exchanges(req) :
        /\ Takes(r)
        /\ \/ Dies("readPath")
           \/ Failing(r)
           \/ Ends("readPath", "zero", "none", "none")
           \/ /\ r.heard # Silence
              /\ ~ SendThrows(req, r.heard)
              /\ ~ ErrorIn(r.heard)
              /\ Goes(c(r))
  BY DEF ReadPath_Fstat, SendCommand
<1> HIDE DEF req
<1>2. CASE \/ Dies("readPath") \/ Failing(r)
           \/ Ends("readPath", "zero", "none", "none")
  BY <1>2, StoppedIs, FailingStops
<1>3. CASE /\ r.heard # Silence
           /\ ~ SendThrows(req, r.heard)
           /\ ~ ErrorIn(r.heard)
           /\ Goes(c(r))
  <2>1. /\ last'.ret = last.ret
        /\ call'.op = "readPath" /\ call'.at = "read" /\ call'.x = call.x
        /\ call'.size = Got(r.heard, "size")
    BY <1>3 DEF Goes
  <2> QED
    BY <1>1, <1>3, <2>1 DEF req, Heard
<1> QED
  BY <1>1, <1>2, <1>3

LEMMA ReadPathRead ==
  ASSUME ReadPath_Read
  PROVE  \/ Stopped
         \/ /\ last'.ret = last.ret
            /\ call'.op = "readPath" /\ call'.at = "close" /\ call'.x = call.x
            /\ \E req : \E r \in Exchanges(req) :
                 /\ req = ReadRequest(call.x[2], call.size, 0)
                 /\ Takes(r) /\ Heard(req, r)
                 /\ call'.data = Received(r.heard)
<1> DEFINE req == ReadRequest(call.x[2], call.size, 0)
           c(r) == [op |-> "readPath", at |-> "close", x |-> call.x,
                    data |-> Received(r.heard)]
<1>0. call.op = "readPath"
  BY DEF ReadPath_Read
<1>1. PICK r \in Exchanges(req) :
        /\ Takes(r)
        /\ \/ Dies("readPath")
           \/ Failing(r)
           \/ Fails("readPath")
           \/ /\ r.heard # Silence
              /\ ~ SendThrows(req, r.heard)
              /\ ~ ErrorIn(r.heard)
              /\ Goes(c(r))
  BY DEF ReadPath_Read, SendCommand
<1> HIDE DEF req
<1>2. CASE Dies("readPath") \/ Failing(r) \/ Fails("readPath")
  BY <1>2, StoppedIs, FailingStops
<1>3. CASE /\ r.heard # Silence
           /\ ~ SendThrows(req, r.heard)
           /\ ~ ErrorIn(r.heard)
           /\ Goes(c(r))
  <2>1. /\ last'.ret = last.ret
        /\ call'.op = "readPath" /\ call'.at = "close" /\ call'.x = call.x
        /\ call'.data = Received(r.heard)
    BY <1>3 DEF Goes
  <2> QED
    BY <1>1, <1>3, <2>1 DEF req, Heard
<1> QED
  BY <1>1, <1>2, <1>3

(* How readPath and get end when they return. *)
ClosedWith(op) ==
  \/ Stopped
  \/ /\ call'.op = "none"
     /\ last'.op = op /\ last'.arg = call.x[3] /\ last'.value = call.data
     /\ \E req : \E r \in Exchanges(req) :
          /\ req = HandleRequest("Close", call.x[2])
          /\ Takes(r) /\ Heard(req, r)

LEMMA ReadPathClosed ==
  ASSUME ReadPath_Close
  PROVE  ClosedWith("readPath")
<1> DEFINE req == HandleRequest("Close", call.x[2])
<1>0. call.op = "readPath"
  BY DEF ReadPath_Close
<1>1. PICK r \in Exchanges(req) :
        /\ Takes(r)
        /\ \/ Dies("readPath")
           \/ Failing(r)
           \/ Fails("readPath")
           \/ /\ r.heard # Silence
              /\ ~ SendThrows(req, r.heard)
              /\ ~ ErrorIn(r.heard)
              /\ Ends("readPath", "ok", call.x[3], call.data)
  BY DEF ReadPath_Close, SendCommand, CloseRequest
<1> HIDE DEF req
<1>2. CASE Dies("readPath") \/ Failing(r) \/ Fails("readPath")
  BY <1>2, StoppedIs, FailingStops DEF ClosedWith
<1>3. CASE /\ r.heard # Silence
           /\ ~ SendThrows(req, r.heard)
           /\ ~ ErrorIn(r.heard)
           /\ Ends("readPath", "ok", call.x[3], call.data)
  <2>1. /\ call'.op = "none"
        /\ last'.op = "readPath" /\ last'.arg = call.x[3] /\ last'.value = call.data
    BY <1>3 DEF Ends, Ended, NotRunning, Remembered
  <2> QED
    BY <1>1, <1>3, <2>1 DEF req, Heard, ClosedWith
<1> QED
  BY <1>1, <1>2, <1>3

LEMMA CloseAnswers ==
  ASSUME IInv, FilesOK(phone), Doomed(1) \/ InStep,
         NEW req, EfsReq(req), req.sub \in {"Close", "CloseDir"},
         NEW r \in Exchanges(req), Takes(r), Heard(req, r)
  PROVE  InStep /\ phone'.tree = phone.tree
<1>2. PhoneOK(phone) /\ rx \in Seq(Range(rx))
  BY DEF IInv, QueueOK
<1>3. PICK n : n = 0
  OBVIOUS
<1>4. n \in Nat /\ (DoomedBy(rx, phone.mode, n + 1) \/ InStep)
  BY <1>3 DEF Doomed
<1>5. DoomedBy(rx', phone'.mode, n) \/ (InStep /\ phone' = Serve(phone, req).phone)
  BY <1>2, <1>4, SteadyExchange
<1>6. ~ DoomedBy(rx', phone'.mode, n)
  <2>1. rx' = r.rest /\ r.rest \in Seq(Range(rx) \cup Sent(req))
    BY <1>2, ExchangePackets DEF Takes
  <2>2. PICK queue : queue = rx'
    OBVIOUS
  <2>3. Len(queue) \in Nat
    BY <2>1, <2>2
  <2>4. \A mode : ~ DoomedBy(queue, mode, 0)
    BY <2>3, NeverDoomed
  <2> QED
    BY <1>3, <2>2, <2>4
<1> QED
  BY <1>2, <1>5, <1>6, CloseKeepsTree

LEMMA CloseAnswered ==
  ASSUME IInv, FilesOK(phone), Doomed(1) \/ InStep,
         NEW req, req = HandleRequest("Close", call.x[2]),
         NEW r \in Exchanges(req), Takes(r), Heard(req, r)
  PROVE  InStep /\ phone'.tree = phone.tree
<1>1. EfsReq(req) /\ req.sub = "Close"
  BY AnswerTable, HandleRequestIs
<1> QED
  BY <1>1, CloseAnswers

LEMMA DataParts ==
  ASSUME IInv, DataOK
  PROVE  /\ CallOK /\ LastOK /\ PhoneOK(phone) /\ FilesOK(phone) /\ PutLocals
         /\ WrittenCounts /\ rx \in Seq(Range(rx)) /\ faults \in 0 .. MaxFaults
<1>1. Core /\ CallOK /\ LastOK
  BY InvariantParts
<1> QED
  BY <1>1 DEF DataOK, Core, QueueOK

LEMMA ReadPathKeeps ==
  ASSUME OpensComeWhole, FewLogs(3), IInv, DataOK,
         ReadPathGoes, ReadPathIsPrefix, [Next]_vars
  PROVE  ReadPathGoes' /\ ReadPathIsPrefix'
<1>0. /\ CallOK /\ LastOK /\ PhoneOK(phone) /\ FilesOK(phone)
      /\ rx \in Seq(Range(rx)) /\ faults \in 0 .. MaxFaults
  BY DataParts
<1>1. CASE UNCHANGED vars
  BY <1>1 DEF vars, lineVars, qcdmVars, efsVars, ReadPathGoes, ReadPathIsPrefix,
              Doomed, ReadPathLeft, InStep, OpenData
<1>2. CASE Next
  <2>1. Elsewhere("readPath") \/ Stopped => ReadPathGoes' /\ ReadPathIsPrefix'
    BY DEF Elsewhere, Stopped, ReadPathGoes, ReadPathIsPrefix
  <2>2. last'.ret = "running" => ReadPathIsPrefix'
    BY DEF ReadPathIsPrefix
  <2>3. CASE ReadPath
    <3>1. CASE ~ Stopped
      <4>1. /\ last'.ret = "running"
            /\ call'.op = "readPath" /\ call'.at = "fstat"
        BY <2>3, <3>1, ReadPathBegun
      <4>2. PICK req : \E r \in Exchanges(req) :
              EfsReq(req) /\ req.sub = "Open" /\ Takes(r) /\ Heard(req, r)
        BY <2>3, <3>1, ReadPathBegun
      <4>3. PICK n : n = 3
        OBVIOUS
      <4>4. n \in Nat /\ Len(rx) <= n
        BY <1>0, <4>3, ShortLine
      <4>5. DoomedBy(rx', phone'.mode, n) \/ InStep'
        BY <1>0, <4>2, <4>4, OpeningExchange
      <4>6. ReadPathGoes'
        BY <4>1, <4>3, <4>5 DEF ReadPathGoes, ReadPathLeft, Doomed
      <4> QED
        BY <2>2, <4>1, <4>6
    <3> QED
      BY <2>1, <3>1
  <2>4. CASE ReadPath_Fstat
    <3>0. /\ call.op = "readPath" /\ call.at = "fstat"
          /\ Running /\ CallKind(call.op) = "file" /\ call.at # "open"
      BY <2>4 DEF ReadPath_Fstat, Running, CallKind
    <3>1. CASE ~ Stopped
      <4>1. /\ last'.ret = last.ret
            /\ call'.op = "readPath" /\ call'.at = "read" /\ call'.x = call.x
        BY <2>4, <3>1, ReadPathStat
      <4>2. PICK req : \E r \in Exchanges(req) :
              /\ req = HandleRequest("Fstat", call.x[2])
              /\ Takes(r) /\ Heard(req, r)
              /\ call'.size = Got(r.heard, "size")
        BY <2>4, <3>1, ReadPathStat
      <4>3. PICK n : n = 2
        OBVIOUS
      <4>4. n \in Nat /\ n >= 1 /\ (Doomed(n + 1) \/ InStep)
        BY <3>0, <4>3 DEF ReadPathGoes, ReadPathLeft
      <4>5. \/ Doomed(n)'
            \/ InStep' /\ phone' = phone /\ call'.size = Len(OpenData)
        BY <1>0, <3>0, <4>2, <4>4, FstatAnswered
      <4>6. ReadPathGoes'
        BY <4>1, <4>3, <4>5 DEF ReadPathGoes, ReadPathLeft, OpenData, Doomed
      <4> QED
        BY <1>0, <2>2, <3>0, <4>1, <4>6 DEF LastOK
    <3> QED
      BY <2>1, <3>1
  <2>5. CASE ReadPath_Read
    <3>0. /\ call.op = "readPath" /\ call.at = "read"
          /\ Running /\ CallKind(call.op) = "file" /\ call.at # "open"
      BY <2>5 DEF ReadPath_Read, Running, CallKind
    <3>1. CASE ~ Stopped
      <4>1. /\ last'.ret = last.ret
            /\ call'.op = "readPath" /\ call'.at = "close" /\ call'.x = call.x
        BY <2>5, <3>1, ReadPathRead
      <4>2. PICK req : \E r \in Exchanges(req) :
              /\ req = ReadRequest(call.x[2], call.size, 0)
              /\ Takes(r) /\ Heard(req, r)
              /\ call'.data = Received(r.heard)
        BY <2>5, <3>1, ReadPathRead
      <4>3. PICK n : n = 1
        OBVIOUS
      <4>4. PICK size : size = call.size
        OBVIOUS
      <4>5. PICK offset : offset = 0
        OBVIOUS
      <4>6. InStep => size = Len(OpenData) /\ OpenData \in Seq(Nat)
        <5>1. Doomed(2) \/ (InStep => size = Len(OpenData))
          BY <3>0, <4>4 DEF ReadPathGoes, ReadPathLeft
        <5>2. Doomed(2) => ~ InStep
          BY DEF Doomed, DoomedBy, InStep
        <5> QED
          BY <1>0, <3>0, <5>1, <5>2, OwnData
      <4>7. /\ n \in Nat /\ n >= 1
            /\ Doomed(n + 1) \/ (InStep /\ size \in Nat /\ offset \in 0 .. Len(OpenData))
        BY <3>0, <4>3, <4>5, <4>6 DEF ReadPathGoes, ReadPathLeft
      <4>8. \/ Doomed(n)'
            \/ /\ InStep /\ InStep' /\ phone' = phone
               /\ \E m \in offset .. Len(OpenData) :
                    /\ m = Min({Len(OpenData), offset + Min({size, MaxRead})})
                    /\ call'.data = SubSeq(OpenData, offset + 1, m)
        <5>1. PICK r \in Exchanges(req) :
                /\ req = ReadRequest(call.x[2], size, offset)
                /\ Takes(r) /\ Heard(req, r)
                /\ call'.data = Received(r.heard)
          BY <4>2, <4>4, <4>5
        <5>2. \/ Doomed(n)'
              \/ /\ InStep /\ InStep' /\ phone' = phone
                 /\ \E m \in offset .. Len(OpenData) :
                      /\ m = Min({Len(OpenData), offset + Min({size, MaxRead})})
                      /\ Received(r.heard) = SubSeq(OpenData, offset + 1, m)
          BY <1>0, <3>0, <4>7, <5>1, ReadAnswered
        <5> QED
          BY <5>1, <5>2
      <4>9. CASE Doomed(n)'
        BY <1>0, <2>2, <3>0, <4>1, <4>3, <4>9 DEF ReadPathGoes, ReadPathLeft, LastOK
      <4>10. CASE /\ InStep /\ InStep' /\ phone' = phone
                  /\ \E m \in offset .. Len(OpenData) :
                       /\ m = Min({Len(OpenData), offset + Min({size, MaxRead})})
                       /\ call'.data = SubSeq(OpenData, offset + 1, m)
        <5>1. PICK data : data = OpenData
          OBVIOUS
        <5>2. PICK k : k = Min({Len(data), MaxRead})
          OBVIOUS
        <5>3. size = Len(data) /\ Len(data) \in Nat
          BY <4>6, <4>10, <5>1
        <5>4. k \in 0 .. Len(data)
          BY <5>2, <5>3, MinIs, PhoneAssumption
        <5>5. PICK m : m = Min({Len(data), offset + k}) /\
                       call'.data = SubSeq(data, offset + 1, m)
          BY <4>10, <5>1, <5>2, <5>3
        <5>6. Min({Len(data), k}) = k
          BY <5>3, <5>4, MinIs
        <5>7. offset + k = k /\ offset + 1 = 1
          BY <4>5, <5>4
        <5>8. call'.data = SubSeq(data, 1, k)
          BY <5>5, <5>6, <5>7
        <5>9. {Len(data), MaxRead} = {MaxRead, Len(data)}
          OBVIOUS
        <5>10. call'.data = SubSeq(data, 1, Min({MaxRead, Len(data)}))
          BY <5>2, <5>8, <5>9
        <5>11. OpenData' = data
          BY <4>1, <4>10, <5>1 DEF OpenData
        <5> QED
          BY <1>0, <2>2, <3>0, <4>1, <4>10, <5>10, <5>11 DEF ReadPathGoes, LastOK
      <4> QED
        BY <4>8, <4>9, <4>10
    <3> QED
      BY <2>1, <3>1
  <2>6. CASE ReadPath_Close
    <3>0. call.op = "readPath" /\ call.at = "close"
      BY <2>6 DEF ReadPath_Close
    <3>1. CASE ~ Stopped
      <4>1. /\ call'.op = "none"
            /\ last'.arg = call.x[3] /\ last'.value = call.data
        BY <2>6, <3>1, ReadPathClosed DEF ClosedWith
      <4>2. PICK req : \E r \in Exchanges(req) :
              /\ req = HandleRequest("Close", call.x[2])
              /\ Takes(r) /\ Heard(req, r)
        BY <2>6, <3>1, ReadPathClosed DEF ClosedWith
      <4>3. Doomed(1) \/ InStep
        BY <3>0 DEF ReadPathGoes, ReadPathLeft
      <4>4. InStep /\ phone'.tree = phone.tree
        BY <1>0, <4>2, <4>3, CloseAnswered
      <4>5. ~ Doomed(1)
        BY <4>4 DEF Doomed, DoomedBy, InStep
      <4>6. call.data = SubSeq(OpenData, 1, Min({MaxRead, Len(OpenData)}))
        BY <3>0, <4>5 DEF ReadPathGoes, ReadPathLeft
      <4>7. phone'.tree[Trimmed(last'.arg)].data = OpenData
        BY <4>1, <4>4 DEF OpenData
      <4>8. ReadPathIsPrefix'
        BY <4>1, <4>6, <4>7 DEF ReadPathIsPrefix
      <4> QED
        BY <4>1, <4>8 DEF ReadPathGoes
    <3> QED
      BY <2>1, <3>1
  <2> QED
    BY <1>0, <1>2, <2>1, <2>3, <2>4, <2>5, <2>6, StepsElsewhere DEF OwnStep, Long
<1> QED
  BY <1>1, <1>2

----------------------------------------------------------------------------
(* get_entry.                                                               *)

LEMMA GetBegun ==
  ASSUME Shell_Get
  PROVE  \/ Stopped
         \/ /\ last'.ret = "running"
            /\ call'.op = "get" /\ call'.at = "fstat"
            /\ \E req : \E r \in Exchanges(req) :
                 EfsReq(req) /\ req.sub = "Open" /\ Takes(r) /\ Heard(req, r)
<1>1. PICK e : ShellOpens("get", Under(e[1], e[2]), FALSE, [at |-> "fstat"])
  BY DEF Shell_Get
<1>2. PICK c : c = [at |-> "fstat"]
  OBVIOUS
<1>3. DOMAIN c = {"at"} /\ c["at"] = "fstat"
  BY <1>2
<1>4. PICK path : path = Under(e[1], e[2])
  OBVIOUS
<1>5. \E creates : ShellOpens("get", path, creates, c)
  BY <1>1, <1>2, <1>4
<1>6. DOMAIN c \cap {"op", "x"} = {}
  BY <1>3
<1>7. OpenedAs("get", path, c)
  BY <1>5, <1>6, ShellOpened
<1>8. PICK req, r :
        /\ EfsReq(req) /\ req.sub = "Open"
        /\ r \in Exchanges(req)
        /\ Takes(r)
        /\ \/ Stopped
           \/ /\ Heard(req, r)
              /\ last'.ret = "running"
              /\ call'.op = "get"
              /\ \A y \in DOMAIN c : call'[y] = c[y]
  BY <1>7 DEF OpenedAs
<1> QED
  BY <1>3, <1>8

GoesOnWith(data, size) ==
  /\ last'.ret = last.ret
  /\ call'.op = "get" /\ call'.x = call.x
  /\ call'.data = data /\ call'.size = size
  /\ call'.at = IF Len(data) = size THEN "close" ELSE "read"

LEMMA GetNextGoesOn ==
  ASSUME NEW data, NEW size, GetNext(data, size)
  PROVE  GoesOnWith(data, size)
BY DEF GetNext, Goes, GoesOnWith

LEMMA GetStat ==
  ASSUME Get_Fstat
  PROVE  \/ Stopped
         \/ \E req : \E r \in Exchanges(req) :
              /\ req = HandleRequest("Fstat", call.x[2])
              /\ Takes(r) /\ Heard(req, r)
              /\ GoesOnWith(<<>>, Got(r.heard, "size"))
<1> DEFINE req == HandleRequest("Fstat", call.x[2])
<1>1. PICK r \in Exchanges(req) :
        /\ Takes(r)
        /\ \/ Dies("get")
           \/ Failing(r)
           \/ Ends("get", "zero", "none", "none")
           \/ /\ r.heard # Silence
              /\ ~ SendThrows(req, r.heard)
              /\ ~ ErrorIn(r.heard)
              /\ GetNext(<<>>, Got(r.heard, "size"))
  BY DEF Get_Fstat, SendCommand
<1> HIDE DEF req
<1>2. CASE Dies("get") \/ Failing(r) \/ Ends("get", "zero", "none", "none")
  BY <1>2, StoppedIs, FailingStops
<1>3. CASE /\ r.heard # Silence
           /\ ~ SendThrows(req, r.heard)
           /\ ~ ErrorIn(r.heard)
           /\ GetNext(<<>>, Got(r.heard, "size"))
  <2>1. PICK size : size = Got(r.heard, "size")
    OBVIOUS
  <2>2. GoesOnWith(<<>>, size)
    BY <1>3, <2>1, GetNextGoesOn
  <2> QED
    BY <1>1, <1>3, <2>1, <2>2 DEF req, Heard
<1> QED
  BY <1>1, <1>2, <1>3

LEMMA GetReads ==
  ASSUME Get_Read
  PROVE  \/ Stopped
         \/ \E req : \E r \in Exchanges(req) :
              /\ req = ReadRequest(call.x[2], call.size - Len(call.data), Len(call.data))
              /\ Takes(r) /\ Heard(req, r)
              /\ GoesOnWith(call.data \o Received(r.heard), call.size)
<1> DEFINE req == ReadRequest(call.x[2], call.size - Len(call.data), Len(call.data))
<1>1. PICK r \in Exchanges(req) :
        /\ Takes(r)
        /\ \/ Dies("get")
           \/ Failing(r)
           \/ /\ r.heard # Silence
              /\ ~ SendThrows(req, r.heard)
              /\ ~ ErrorIn(r.heard)
              /\ GetNext(call.data \o Received(r.heard), call.size)
  BY DEF Get_Read, SendCommand
<1> HIDE DEF req
<1>2. CASE Dies("get") \/ Failing(r)
  BY <1>2, StoppedIs, FailingStops
<1>3. CASE /\ r.heard # Silence
           /\ ~ SendThrows(req, r.heard)
           /\ ~ ErrorIn(r.heard)
           /\ GetNext(call.data \o Received(r.heard), call.size)
  <2>1. PICK data : data = call.data \o Received(r.heard)
    OBVIOUS
  <2>2. GoesOnWith(data, call.size)
    BY <1>3, <2>1, GetNextGoesOn
  <2> QED
    BY <1>1, <1>3, <2>1, <2>2 DEF req, Heard
<1> QED
  BY <1>1, <1>2, <1>3

LEMMA GetClosed ==
  ASSUME Get_Close
  PROVE  ClosedWith("get")
<1> DEFINE req == HandleRequest("Close", call.x[2])
<1>1. PICK r \in Exchanges(req) :
        /\ Takes(r)
        /\ \/ Dies("get")
           \/ Failing(r)
           \/ /\ r.heard # Silence
              /\ ~ SendThrows(req, r.heard)
              /\ ~ ErrorIn(r.heard)
              /\ Ends("get", "ok", call.x[3], call.data)
  BY DEF Get_Close, SendCommand, CloseRequest
<1> HIDE DEF req
<1>2. CASE Dies("get") \/ Failing(r)
  BY <1>2, StoppedIs, FailingStops DEF ClosedWith
<1>3. CASE /\ r.heard # Silence
           /\ ~ SendThrows(req, r.heard)
           /\ ~ ErrorIn(r.heard)
           /\ Ends("get", "ok", call.x[3], call.data)
  <2>1. /\ call'.op = "none"
        /\ last'.op = "get" /\ last'.arg = call.x[3] /\ last'.value = call.data
    BY <1>3 DEF Ends, Ended, NotRunning, Remembered
  <2> QED
    BY <1>1, <1>3, <2>1 DEF req, Heard, ClosedWith
<1> QED
  BY <1>1, <1>2, <1>3

LEMMA CopyGoesOn ==
  ASSUME NEW data, NEW size, GoesOnWith(data, size),
         InStep', phone' = phone, OpenData \in Seq(Nat), size = Len(OpenData),
         NEW n \in 0 .. Len(OpenData), data = SubSeq(OpenData, 1, n)
  PROVE  GetGoes'
<1>1. PICK whole : whole = OpenData
  OBVIOUS
<1>2. OpenData' = whole /\ Len(whole) \in Nat /\ n \in 0 .. Len(whole)
  BY <1>1 DEF GoesOnWith, OpenData
<1>3. Len(data) = n
  BY <1>1, <1>2, FirstPart
<1>4. /\ call'.data = SubSeq(whole, 1, n) /\ call'.size = Len(whole)
      /\ call'.at = "close" => n = Len(whole)
  BY <1>1, <1>2, <1>3 DEF GoesOnWith
<1> QED
  BY <1>2, <1>4 DEF GetGoes

LEMMA GetKeeps ==
  ASSUME OpensComeWhole, FewLogs(2), IInv, DataOK, GetGoes, GotIsWhole, [Next]_vars
  PROVE  GetGoes' /\ GotIsWhole'
<1>0. /\ CallOK /\ LastOK /\ PhoneOK(phone) /\ FilesOK(phone)
      /\ rx \in Seq(Range(rx)) /\ faults \in 0 .. MaxFaults
  BY DataParts
<1>1. CASE UNCHANGED vars
  BY <1>1 DEF vars, lineVars, qcdmVars, efsVars, GetGoes, GotIsWhole,
              Doomed, CopyLeft, InStep, OpenData
<1>2. CASE Next
  <2>1. Elsewhere("get") \/ Stopped => GetGoes' /\ GotIsWhole'
    BY DEF Elsewhere, Stopped, GetGoes, GotIsWhole
  <2>2. last'.ret = "running" => GotIsWhole'
    BY DEF GotIsWhole
  <2>3. CASE Shell_Get
    <3>1. CASE ~ Stopped
      <4>1. /\ last'.ret = "running"
            /\ call'.op = "get" /\ call'.at = "fstat"
        BY <2>3, <3>1, GetBegun
      <4>2. PICK req : \E r \in Exchanges(req) :
              EfsReq(req) /\ req.sub = "Open" /\ Takes(r) /\ Heard(req, r)
        BY <2>3, <3>1, GetBegun
      <4>3. PICK n : n = 2
        OBVIOUS
      <4>4. n \in Nat /\ Len(rx) <= n
        BY <1>0, <4>3, ShortLine
      <4>5. DoomedBy(rx', phone'.mode, n) \/ InStep'
        BY <1>0, <4>2, <4>4, OpeningExchange
      <4>6. GetGoes'
        BY <4>1, <4>3, <4>5 DEF GetGoes, CopyLeft, Doomed
      <4> QED
        BY <2>2, <4>1, <4>6
    <3> QED
      BY <2>1, <3>1
  <2>4. CASE Get_Fstat
    <3>0. /\ call.op = "get" /\ call.at = "fstat"
          /\ Running /\ CallKind(call.op) = "file" /\ call.at # "open"
      BY <2>4 DEF Get_Fstat, StepOf, Running, CallKind
    <3>1. CASE ~ Stopped
      <4>1. PICK req : \E r \in Exchanges(req) :
              /\ req = HandleRequest("Fstat", call.x[2])
              /\ Takes(r) /\ Heard(req, r)
              /\ GoesOnWith(<<>>, Got(r.heard, "size"))
        BY <2>4, <3>1, GetStat
      <4>2. PICK n : n = 1
        OBVIOUS
      <4>3. n \in Nat /\ n >= 1 /\ (Doomed(n + 1) \/ InStep)
        BY <3>0, <4>2 DEF GetGoes, CopyLeft
      <4>4. PICK size : /\ GoesOnWith(<<>>, size)
                        /\ \/ Doomed(n)'
                           \/ /\ InStep' /\ phone' = phone
                              /\ size = Len(OpenData)
                              /\ OpenData \in Seq(Nat)
        BY <1>0, <3>0, <4>1, <4>3, FstatAnswered
      <4>5. last'.ret = "running" /\ call'.op = "get"
        BY <1>0, <3>0, <4>4 DEF GoesOnWith, LastOK
      <4>6. Doomed(n)' => GetGoes'
        <5>1. Len(rx') \in Nat
          BY <1>0, <4>1, ExchangePackets DEF Takes
        <5>2. ASSUME DoomedBy(rx', phone'.mode, n)
              PROVE  DoomedBy(rx', phone'.mode, 2)
          BY <4>2, <4>3, <5>1, <5>2, DoomedMono
        <5> QED
          BY <4>2, <5>2 DEF GetGoes, CopyLeft, Doomed
      <4>7. CASE /\ InStep' /\ phone' = phone
                 /\ size = Len(OpenData)
                 /\ OpenData \in Seq(Nat)
        <5>1. PICK data : data = <<>>
          OBVIOUS
        <5>2. PICK k : k = 0
          OBVIOUS
        <5>3. k \in 0 .. Len(OpenData) /\ data = SubSeq(OpenData, 1, k)
          BY <4>7, <5>1, <5>2, WholePart
        <5>4. GetGoes'
          BY <4>4, <4>7, <5>1, <5>3, CopyGoesOn
        <5> QED
          BY <2>2, <4>5, <5>4
      <4> QED
        BY <2>2, <4>4, <4>5, <4>6, <4>7
    <3> QED
      BY <2>1, <3>1
  <2>5. CASE Get_Read
    <3>0. /\ call.op = "get" /\ call.at = "read"
          /\ Running /\ CallKind(call.op) = "file" /\ call.at # "open"
      BY <2>5 DEF Get_Read, StepOf, Running, CallKind
    <3>1. CASE ~ Stopped
      <4>1. PICK req : \E r \in Exchanges(req) :
              /\ req = ReadRequest(call.x[2], call.size - Len(call.data),
                                   Len(call.data))
              /\ Takes(r) /\ Heard(req, r)
              /\ GoesOnWith(call.data \o Received(r.heard), call.size)
        BY <2>5, <3>1, GetReads
      <4>2. PICK n : n = 1
        OBVIOUS
      <4>3. PICK size : size = call.size - Len(call.data)
        OBVIOUS
      <4>4. PICK offset : offset = Len(call.data)
        OBVIOUS
      <4>5. ~ Doomed(2) =>
              /\ InStep /\ OpenData \in Seq(Nat)
              /\ call.size = Len(OpenData)
              /\ size \in Nat /\ offset \in 0 .. Len(OpenData)
              /\ call.data = SubSeq(OpenData, 1, offset)
        <5>1. CASE ~ Doomed(2)
          <6>1. /\ InStep /\ call.size = Len(OpenData)
                /\ \E k \in 0 .. Len(OpenData) : call.data = SubSeq(OpenData, 1, k)
            BY <3>0, <5>1 DEF GetGoes, CopyLeft
          <6>2. OpenData \in Seq(Nat)
            BY <1>0, <3>0, <6>1, OwnData
          <6>3. PICK k \in 0 .. Len(OpenData) : call.data = SubSeq(OpenData, 1, k)
            BY <6>1
          <6>4. Len(call.data) = k
            BY <6>2, <6>3, FirstPart
          <6>5. Len(OpenData) \in Nat
            BY <6>2
          <6> QED
            BY <4>3, <4>4, <6>1, <6>2, <6>3, <6>4, <6>5
        <5> QED
          BY <5>1
      <4>6. /\ n \in Nat /\ n >= 1
            /\ Doomed(n + 1) \/ (InStep /\ size \in Nat /\ offset \in 0 .. Len(OpenData))
        BY <4>2, <4>5
      <4>7. PICK more :
              /\ GoesOnWith(call.data \o more, call.size)
              /\ \/ Doomed(n)'
                 \/ /\ InStep /\ InStep' /\ phone' = phone
                    /\ \E m \in offset .. Len(OpenData) :
                         more = SubSeq(OpenData, offset + 1, m)
        <5>1. PICK r \in Exchanges(req) :
                /\ req = ReadRequest(call.x[2], size, offset)
                /\ Takes(r) /\ Heard(req, r)
                /\ GoesOnWith(call.data \o Received(r.heard), call.size)
          BY <4>1, <4>3, <4>4
        <5>2. \/ Doomed(n)'
              \/ /\ InStep /\ InStep' /\ phone' = phone
                 /\ \E m \in offset .. Len(OpenData) :
                      Received(r.heard) = SubSeq(OpenData, offset + 1, m)
          BY <1>0, <3>0, <4>6, <5>1, ReadAnswered
        <5> QED
          BY <5>1, <5>2
      <4>8. last'.ret = "running" /\ call'.op = "get"
        BY <1>0, <3>0, <4>7 DEF GoesOnWith, LastOK
      <4>9. Doomed(n)' => GetGoes'
        <5>1. Len(rx') \in Nat
          BY <1>0, <4>1, ExchangePackets DEF Takes
        <5>2. ASSUME DoomedBy(rx', phone'.mode, n)
              PROVE  DoomedBy(rx', phone'.mode, 2)
          BY <4>2, <4>6, <5>1, <5>2, DoomedMono
        <5> QED
          BY <4>2, <5>2 DEF GetGoes, CopyLeft, Doomed
      <4>10. ASSUME InStep, InStep', phone' = phone,
                    NEW m \in offset .. Len(OpenData),
                    more = SubSeq(OpenData, offset + 1, m)
             PROVE  GetGoes'
        <5>1. ~ Doomed(2)
          BY <4>10 DEF Doomed, DoomedBy, InStep
        <5>2. PICK data : data = call.data \o more
          OBVIOUS
        <5>3. data = SubSeq(OpenData, 1, m)
          BY <4>5, <4>10, <5>1, <5>2, JoinedParts
        <5>4. PICK full : full = call.size
          OBVIOUS
        <5>5. GoesOnWith(data, full) /\ full = Len(OpenData) /\ OpenData \in Seq(Nat)
          BY <4>5, <4>7, <5>1, <5>2, <5>4
        <5>6. m \in 0 .. Len(OpenData)
          BY <4>5, <4>10, <5>1
        <5> QED
          BY <4>10, <5>3, <5>5, <5>6, CopyGoesOn
      <4> QED
        BY <2>2, <4>7, <4>8, <4>9, <4>10
    <3> QED
      BY <2>1, <3>1
  <2>6. CASE Get_Close
    <3>0. /\ call.op = "get" /\ call.at = "close"
          /\ Running /\ CallKind(call.op) = "file" /\ call.at # "open"
      BY <2>6 DEF Get_Close, StepOf, Running, CallKind
    <3>1. CASE ~ Stopped
      <4>1. /\ call'.op = "none"
            /\ last'.arg = call.x[3] /\ last'.value = call.data
        BY <2>6, <3>1, GetClosed DEF ClosedWith
      <4>2. PICK req : \E r \in Exchanges(req) :
              /\ req = HandleRequest("Close", call.x[2])
              /\ Takes(r) /\ Heard(req, r)
        BY <2>6, <3>1, GetClosed DEF ClosedWith
      <4>3. Doomed(1) \/ InStep
        BY <3>0 DEF GetGoes, CopyLeft
      <4>4. InStep /\ phone'.tree = phone.tree
        BY <1>0, <4>2, <4>3, CloseAnswered
      <4>5. ~ Doomed(1)
        BY <4>4 DEF Doomed, DoomedBy, InStep
      <4>6. PICK n \in 0 .. Len(OpenData) :
              call.data = SubSeq(OpenData, 1, n) /\ n = Len(OpenData)
        BY <3>0, <4>5 DEF GetGoes, CopyLeft
      <4>7. OpenData \in Seq(Nat)
        BY <1>0, <3>0, <4>4, OwnData
      <4>8. call.data = OpenData
        BY <4>6, <4>7, WholePart
      <4>9. phone'.tree[Trimmed(last'.arg)].data = OpenData
        BY <4>1, <4>4 DEF OpenData
      <4>10. GotIsWhole'
        BY <4>1, <4>8, <4>9 DEF GotIsWhole
      <4> QED
        BY <4>1, <4>10 DEF GetGoes
    <3> QED
      BY <2>1, <3>1
  <2> QED
    BY <1>0, <1>2, <2>1, <2>3, <2>4, <2>5, <2>6, StepsElsewhere DEF OwnStep, Long
<1> QED
  BY <1>1, <1>2

----------------------------------------------------------------------------
(* put_entry.                                                               *)

LEMMA PartOfRest ==
  ASSUME NEW S, NEW d \in Seq(S), NEW w \in 0 .. Len(d),
         NEW rest, rest = SubSeq(d, w + 1, Len(d)), NEW m \in 0 .. Len(rest)
  PROVE  /\ w + m \in w .. Len(d)
         /\ SubSeq(rest, 1, m) = SubSeq(d, w + 1, w + m)
<1>1. /\ rest \in Seq(S) /\ Len(d) \in Nat
      /\ Len(rest) = IF w <= Len(d) THEN Len(d) - w ELSE 0
      /\ \A i \in 1 .. Len(rest) : rest[i] = d[w + i]
  <2>1. Len(d) \in 0 .. Len(d) /\ w \in Nat
    OBVIOUS
  <2> QED
    BY <2>1, PartIs
<1>2. Len(rest) = Len(d) - w /\ w \in Nat /\ w <= Len(d)
  BY <1>1
<1>3. w + m \in w .. Len(d) /\ w + m \in 0 .. Len(d)
  BY <1>1, <1>2
<1>4. PICK a : a = SubSeq(rest, 1, m)
  OBVIOUS
<1>5. a \in Seq(S) /\ Len(a) = m /\ \A i \in 1 .. m : a[i] = rest[i]
  BY <1>1, <1>4, FirstPart
<1>6. PICK v : v = w + m
  OBVIOUS
<1>7. PICK b : b = SubSeq(d, w + 1, v)
  OBVIOUS
<1>8. /\ b \in Seq(S)
      /\ Len(b) = IF w <= v THEN v - w ELSE 0
      /\ \A i \in 1 .. Len(b) : b[i] = d[w + i]
  BY <1>2, <1>3, <1>6, <1>7, PartIs
<1>9. Len(b) = m
  BY <1>1, <1>2, <1>6, <1>8
<1>10. \A i \in 1 .. m : a[i] = b[i]
  <2> SUFFICES ASSUME NEW i \in 1 .. m
               PROVE  a[i] = b[i]
    OBVIOUS
  <2>1. i \in 1 .. Len(rest)
    BY <1>1
  <2>2. rest[i] = d[w + i]
    BY <1>1, <2>1
  <2>3. b[i] = d[w + i]
    BY <1>8, <1>9
  <2> QED
    BY <1>5, <2>2, <2>3
<1>11. a = b
  BY <1>5, <1>8, <1>9, <1>10
<1> QED
  BY <1>3, <1>4, <1>6, <1>7, <1>11

LEMMA WriteAnswered ==
  ASSUME IInv, FilesOK(phone),
         Running, CallKind(call.op) = "file", call.at # "open",
         NEW data \in Seq(Nat), NEW offset \in Nat,
         NEW req, req = WriteRequest(call.x[2], data, offset),
         NEW r \in Exchanges(req), Takes(r), Heard(req, r),
         NEW n \in Nat, n >= 1, Doomed(n + 1) \/ InStep
  PROVE  \/ Doomed(n)'
         \/ /\ InStep /\ InStep' /\ OpenData \in Seq(Nat)
            /\ \E m \in 0 .. Len(data) :
                 /\ Got(r.heard, "bytesWritten") = m
                 /\ phone'.tree[Trimmed(call.x[3])].data =
                      Overlaid(OpenData, SubSeq(data, 1, m), offset)
<1>1. /\ EfsReq(req) /\ req.sub = "Write" /\ req.h = call.x[2]
      /\ req.data = data /\ req.offset = offset
  BY WriteRequestIs
<1>2. PhoneOK(phone) /\ rx \in Seq(Range(rx))
  BY DEF IInv, QueueOK
<1>3. \/ DoomedBy(rx', phone'.mode, n)
      \/ InStep /\ rx' = <<Remainder>>
      \/ /\ InStep /\ InStep'
         /\ phone' = Serve(phone, req).phone
         /\ r.heard = Serve(phone, req).answer
  BY <1>1, <1>2, SteadyExchange DEF Doomed
<1>4. CASE DoomedBy(rx', phone'.mode, n) \/ rx' = <<Remainder>>
  BY <1>4, RemainderDooms DEF Doomed
<1>5. CASE /\ InStep /\ InStep'
           /\ phone' = Serve(phone, req).phone
           /\ r.heard = Serve(phone, req).answer
  <2>1. PICK s : s = Serve(phone, req)
    OBVIOUS
  <2>2. ~ ErrorIn(s.answer)
    BY <1>5, <2>1 DEF Heard
  <2>3. Sound(req)
    BY <1>1 DEF Sound
  <2>0. PICK m : m = IF Len(req.data) <= MaxWrite THEN Len(req.data) ELSE MaxWrite
    OBVIOUS
  <2>4. /\ m \in 0 .. Len(req.data)
        /\ PartWritten(req) = SubSeq(req.data, 1, m)
        /\ Len(PartWritten(req)) = m
    BY <1>1, <2>0, <2>3, PartWrittenIs
  <2>5. /\ FileOf(phone, req) = OpenData /\ OpenData \in Seq(Nat)
        /\ phone.open[<<"file", req.h>>] = Trimmed(call.x[3])
    BY <1>1, <1>5, OwnFile
  <2>6. PICK path : path = phone.open[<<"file", req.h>>]
    OBVIOUS
  <2>7. PICK new : new = Overlaid(FileOf(phone, req), PartWritten(req), req.offset)
    OBVIOUS
  <2>8. /\ s.phone = Put(phone, path, File(new))
        /\ Got(s.answer, "bytesWritten") = Len(PartWritten(req))
    BY <1>1, <2>1, <2>2, <2>6, <2>7, WriteServed
  <2>9. s.phone.tree[path] = File(new)
    BY <1>2, <2>8, PutIs
  <2>10. File(new).data = new
    BY DEF File
  <2>11. phone'.tree[Trimmed(call.x[3])].data = new
    BY <1>5, <2>1, <2>5, <2>6, <2>9, <2>10
  <2>12. new = Overlaid(OpenData, SubSeq(data, 1, m), offset)
    BY <1>1, <2>4, <2>5, <2>7
  <2> QED
    BY <1>1, <1>5, <2>1, <2>4, <2>5, <2>8, <2>11, <2>12
<1> QED
  BY <1>3, <1>4, <1>5

LEMMA PutBegins ==
  ASSUME OpensComeWhole, FewLogs(IF NoData \in Datas THEN 1 ELSE 2),
         IInv, DataOK, Shell_Put
  PROVE  Stopped \/ (last'.ret = "running" /\ PutGoes')
<1>0. /\ CallOK /\ LastOK /\ PhoneOK(phone) /\ FilesOK(phone)
      /\ rx \in Seq(Range(rx)) /\ faults \in 0 .. MaxFaults
  BY DataParts
<1>1. PICK path \in Paths, data \in Datas : \E readable, req, r :
        /\ EfsReq(req) /\ req.sub = "Open" /\ req.path = path
        /\ r \in Exchanges(req)
        /\ Takes(r)
        /\ \/ Stopped
           \/ /\ Heard(req, r)
              /\ last'.ret = "running"
              /\ call'.op = "put"
              /\ call'.x = <<"file", Got(r.heard, "fp"), path>>
              /\ call'.at = IF readable /\ data # NoData THEN "write" ELSE "close"
              /\ call'.written = 0
              /\ call'.data = data
              /\ call'.readable = readable
              /\ call'.old = IF IsA(phone, path, "file")
                             THEN phone.tree[Trimmed(path)].data
                             ELSE NoData
  BY PutBegun
<1>2. PICK readable, req, r :
        /\ EfsReq(req) /\ req.sub = "Open" /\ req.path = path
        /\ r \in Exchanges(req)
        /\ Takes(r)
        /\ \/ Stopped
           \/ /\ Heard(req, r)
              /\ last'.ret = "running"
              /\ call'.op = "put"
              /\ call'.x = <<"file", Got(r.heard, "fp"), path>>
              /\ call'.at = IF readable /\ data # NoData THEN "write" ELSE "close"
              /\ call'.written = 0
              /\ call'.data = data
              /\ call'.readable = readable
              /\ call'.old = IF IsA(phone, path, "file")
                             THEN phone.tree[Trimmed(path)].data
                             ELSE NoData
  BY <1>1
<1>3. CASE ~ Stopped /\ ~ call'.readable
  BY <1>2, <1>3 DEF PutGoes
<1>4. CASE ~ Stopped /\ call'.readable
  <2>0. readable
    BY <1>2, <1>4, Zenon
  <2>1. /\ Heard(req, r) /\ last'.ret = "running" /\ call'.op = "put"
        /\ call'.x[3] = path
        /\ call'.at = IF data # NoData THEN "write" ELSE "close"
        /\ call'.written = 0 /\ call'.data = data
    <3>1. /\ Heard(req, r) /\ last'.ret = "running" /\ call'.op = "put"
          /\ call'.x = <<"file", Got(r.heard, "fp"), path>>
          /\ call'.at = IF readable /\ data # NoData THEN "write" ELSE "close"
          /\ call'.written = 0 /\ call'.data = data
      BY <1>2, <1>4, Zenon
    <3> QED
      BY <2>0, <3>1
  <2>2. PICK n : n = IF data # NoData THEN 2 ELSE 1
    OBVIOUS
  <2>3. n \in Nat /\ n >= 1
    BY <2>2
  <2>4. FewLogs(n)
    BY <2>2, LineAssumption DEF FewLogs
  <2>5. Len(rx) <= n
    BY <1>0, <2>3, <2>4, ShortLine
  <2>6. CASE DoomedBy(rx', phone'.mode, n)
    BY <2>1, <2>2, <2>6 DEF PutGoes, CopyLeft, Doomed
  <2>7. CASE /\ InStep /\ InStep'
             /\ phone' = Serve(phone, req).phone
             /\ r.heard = Serve(phone, req).answer
    <3>1. PICK s : s = Serve(phone, req)
      OBVIOUS
    <3>2. ~ ErrorIn(s.answer)
      BY <2>1, <2>7, <3>1 DEF Heard
    <3>3. FilesOK(s.phone) /\ IsA(s.phone, req.path, "file")
      BY <1>0, <1>2, <3>1, <3>2, OpenServed
    <3>4. s.phone.tree[Trimmed(req.path)].data =
            IF IsA(phone, req.path, "file") THEN phone.tree[Trimmed(req.path)].data
            ELSE NoData
      BY <1>0, <1>2, <3>1, <3>2, OpenServed
    <3>5. PICK old : old = call'.old
      OBVIOUS
    <3>6. phone'.tree[Trimmed(path)].data = old
      BY <1>2, <1>4, <2>7, <3>1, <3>4, <3>5
    <3>7. old \in Seq(Nat)
      <4>1. s.phone.tree[Trimmed(path)].data \in Seq(Nat)
        BY <1>2, <3>3 DEF FilesOK, IsA, Exists
      <4> QED
        BY <2>7, <3>1, <3>6, <4>1
    <3>8. OpenData' = old
      BY <2>1, <3>6 DEF OpenData
    <3>9. data \in Seq(Nat)
      BY DatasAssumption
    <3>10. SubSeq(data, 1, 0) = <<>>
      BY <3>9, WholePart
    <3>11. Overlaid(old, SubSeq(data, 1, 0), 0) = old
      BY <3>7, <3>10, OverlaidNothing
    <3>12. 0 \in 0 .. Len(data) /\ (data = NoData => Len(data) = 0)
      BY <3>9 DEF NoData
    <3> QED
      BY <2>1, <2>7, <3>5, <3>7, <3>8, <3>11, <3>12 DEF PutGoes
  <2> QED
    BY <1>0, <1>2, <2>1, <2>3, <2>5, <2>6, <2>7, OpeningExchange
<1> QED
  BY <1>2, <1>3, <1>4

LEMMA PutWrites ==
  ASSUME IInv, DataOK, PutGoes, Put_Write
  PROVE  Stopped \/ (last'.ret = "running" /\ PutGoes')
<1>0. /\ CallOK /\ LastOK /\ PhoneOK(phone) /\ FilesOK(phone) /\ PutLocals
      /\ rx \in Seq(Range(rx)) /\ faults \in 0 .. MaxFaults
  BY DataParts
<1>1. /\ call.op = "put" /\ call.at = "write"
      /\ Running /\ CallKind(call.op) = "file" /\ call.at # "open"
  BY DEF Put_Write, StepOf, Running, CallKind
<1>2. PICK data : data = call.data
  OBVIOUS
<1>3. PICK w : w = call.written
  OBVIOUS
<1>4. PICK left : left = SubSeq(data, w + 1, Len(data))
  OBVIOUS
<1>5. PICK req : req = WriteRequest(call.x[2], left, w)
  OBVIOUS
<1>6. PICK r \in Exchanges(req) :
        /\ Takes(r)
        /\ \/ Stopped
           \/ /\ Heard(req, r)
              /\ last'.ret = last.ret
              /\ \A y \in {"op", "x", "data", "readable", "old"} :
                   call'[y] = call[y]
              /\ call'.written = w + Got(r.heard, "bytesWritten")
              /\ call'.at = IF call'.written = Len(data) THEN "close" ELSE "write"
  BY <1>0, <1>2, <1>3, <1>4, <1>5, PutWrote
<1>7. last'.ret = last.ret => last'.ret = "running"
  BY <1>0, <1>1 DEF LastOK
<1>8. CASE ~ Stopped /\ ~ call.readable
  BY <1>6, <1>7, <1>8 DEF PutGoes
<1>9. CASE ~ Stopped /\ call.readable
  <2>1. /\ Heard(req, r)
        /\ call'.op = "put" /\ call'.x = call.x /\ call'.data = data
        /\ call'.old = call.old
        /\ call'.written = w + Got(r.heard, "bytesWritten")
        /\ call'.at = IF call'.written = Len(data) THEN "close" ELSE "write"
    BY <1>1, <1>2, <1>6, <1>9
  <2>2. data \in Seq(Nat) /\ w \in Nat
    BY <1>0, <1>1, <1>2, <1>3 DEF PutLocals
  <2>3. left \in Seq(Nat)
    <3>1. Len(data) \in 0 .. Len(data)
      BY <2>2
    <3> QED
      BY <1>4, <2>2, <3>1, PartIs
  <2>4. PICK n : n = 1
    OBVIOUS
  <2>5. n \in Nat /\ n >= 1 /\ (Doomed(n + 1) \/ InStep)
    BY <1>1, <1>9, <2>4 DEF PutGoes, CopyLeft
  <2>6. \/ Doomed(n)'
        \/ /\ InStep /\ InStep' /\ OpenData \in Seq(Nat)
           /\ \E m \in 0 .. Len(left) :
                /\ Got(r.heard, "bytesWritten") = m
                /\ phone'.tree[Trimmed(call.x[3])].data =
                     Overlaid(OpenData, SubSeq(left, 1, m), w)
    BY <1>0, <1>1, <1>5, <1>6, <2>1, <2>2, <2>3, <2>5, WriteAnswered
  <2>7. Doomed(n)' => PutGoes'
    <3>1. Len(rx') \in Nat
      BY <1>0, <1>6, ExchangePackets DEF Takes
    <3>2. ASSUME DoomedBy(rx', phone'.mode, n)
          PROVE  DoomedBy(rx', phone'.mode, 2)
      BY <2>4, <2>5, <3>1, <3>2, DoomedMono
    <3> QED
      BY <2>4, <3>2 DEF PutGoes, CopyLeft, Doomed
  <2>8. ASSUME InStep, InStep', OpenData \in Seq(Nat), NEW m \in 0 .. Len(left),
               Got(r.heard, "bytesWritten") = m,
               phone'.tree[Trimmed(call.x[3])].data =
                 Overlaid(OpenData, SubSeq(left, 1, m), w)
        PROVE  PutGoes'
    <3>1. ~ Doomed(2)
      BY <2>8 DEF Doomed, DoomedBy, InStep
    <3>2. PICK old : old = call.old
      OBVIOUS
    <3>3. /\ old \in Seq(Nat) /\ w \in 0 .. Len(data)
          /\ OpenData = Overlaid(old, SubSeq(data, 1, w), 0)
      BY <1>1, <1>2, <1>3, <1>9, <3>1, <3>2 DEF PutGoes, CopyLeft
    <3>4. PICK v : v = w + m
      OBVIOUS
    <3>5. v \in w .. Len(data) /\ SubSeq(left, 1, m) = SubSeq(data, w + 1, v)
      BY <1>4, <2>2, <3>3, <3>4, PartOfRest
    <3>6. PICK d : d = OpenData
      OBVIOUS
    <3>7. Overlaid(d, SubSeq(data, w + 1, v), w) =
            Overlaid(old, SubSeq(data, 1, v), 0)
      BY <2>2, <3>3, <3>5, <3>6, OverlaidGoesOn
    <3>8. OpenData' = Overlaid(old, SubSeq(data, 1, v), 0)
      BY <2>1, <2>8, <3>5, <3>6, <3>7 DEF OpenData
    <3>9. v \in 0 .. Len(data) /\ call'.written = v
      BY <2>1, <2>2, <2>8, <3>3, <3>4, <3>5
    <3>10. call'.at = "close" => v = Len(data)
      BY <2>1, <3>9
    <3> QED
      BY <2>1, <2>8, <3>2, <3>3, <3>8, <3>9, <3>10 DEF PutGoes
  <2> QED
    BY <1>6, <1>7, <1>9, <2>6, <2>7, <2>8
<1> QED
  BY <1>6, <1>8, <1>9

LEMMA PutCloses ==
  ASSUME IInv, DataOK, PutGoes, Put_Close
  PROVE  Stopped \/ (call'.op = "none" /\ PutIsWritten')
<1>0. PhoneOK(phone) /\ FilesOK(phone) /\ PutLocals
  BY DataParts
<1>1. call.op = "put" /\ call.at = "close"
  BY DEF Put_Close, StepOf
<1>2. CASE ~ Stopped
  <2>1. PICK req : req = HandleRequest("Close", call.x[2])
    OBVIOUS
  <2>2. PICK r \in Exchanges(req) : /\ Takes(r) /\ Heard(req, r)
                                   /\ call.readable
                                   /\ call'.op = "none"
                                   /\ last'.arg = call.x[3]
                                   /\ last'.value.data = call.data
                                   /\ last'.value.old = call.old
    BY <1>2, <2>1, PutClosed
  <2>3. Doomed(1) \/ InStep
    BY <1>1, <2>2 DEF PutGoes, CopyLeft
  <2>4. InStep /\ phone'.tree = phone.tree
    BY <1>0, <2>1, <2>2, <2>3, CloseAnswered
  <2>5. ~ Doomed(1)
    BY <2>4 DEF Doomed, DoomedBy, InStep
  <2>6. OpenData = Overlaid(call.old, SubSeq(call.data, 1, Len(call.data)), 0)
    BY <1>1, <2>2, <2>5 DEF PutGoes, CopyLeft
  <2>7. SubSeq(call.data, 1, Len(call.data)) = call.data
    BY <1>0, <1>1, WholePart DEF PutLocals
  <2>8. phone'.tree[Trimmed(last'.arg)].data = OpenData
    BY <2>2, <2>4 DEF OpenData
  <2>9. PutIsWritten'
    BY <2>2, <2>6, <2>7, <2>8 DEF PutIsWritten
  <2> QED
    BY <2>2, <2>9
<1> QED
  BY <1>2

LEMMA PutKeeps ==
  ASSUME OpensComeWhole, FewLogs(IF NoData \in Datas THEN 1 ELSE 2),
         IInv, DataOK, PutGoes, PutIsWritten, [Next]_vars
  PROVE  PutGoes' /\ PutIsWritten'
<1>0. CallOK /\ LastOK
  BY DataParts
<1>1. CASE UNCHANGED vars
  BY <1>1 DEF vars, lineVars, qcdmVars, efsVars, PutGoes, PutIsWritten,
              Doomed, CopyLeft, InStep, OpenData
<1>2. CASE Next
  <2>1. Elsewhere("put") \/ Stopped => PutGoes' /\ PutIsWritten'
    BY DEF Elsewhere, Stopped, PutGoes, PutIsWritten
  <2>2. last'.ret = "running" => PutIsWritten'
    BY DEF PutIsWritten
  <2>3. call'.op = "none" => PutGoes'
    BY DEF PutGoes
  <2>4. CASE Shell_Put
    BY <2>1, <2>2, <2>4, PutBegins
  <2>5. CASE Put_Write
    BY <2>1, <2>2, <2>5, PutWrites
  <2>6. CASE Put_Close
    BY <2>1, <2>3, <2>6, PutCloses
  <2> QED
    BY <1>0, <1>2, <2>1, <2>4, <2>5, <2>6, StepsElsewhere DEF OwnStep, Long
<1> QED
  BY <1>1, <1>2

----------------------------------------------------------------------------
(* Theorems.  FewLogs: with a line that is as many packets behind as a      *)
(* method has requests, every answer that it takes may be an older one of   *)
(* the same kind, and what it returns is of another file.                   *)

(* A read of a path that returns has the beginning of the file, as much as  *)
(* the phone puts into one answer, whatever was on the line before it and   *)
(* went wrong on it since.                                                  *)
THEOREM ReadPathIsPrefixHolds ==
  ASSUME OpensComeWhole, FewLogs(3)
  PROVE  Spec => []ReadPathIsPrefix
<1>1. Init => ReadPathGoes /\ ReadPathIsPrefix
  BY DEF Init, EfsInit, QcdmInit, NotRunning, NoCall, ReadPathGoes, ReadPathIsPrefix
<1>2. IInv /\ DataOK /\ ReadPathGoes /\ ReadPathIsPrefix /\ [Next]_vars =>
        ReadPathGoes' /\ ReadPathIsPrefix'
  BY ReadPathKeeps
<1> QED
  BY <1>1, <1>2, DiagInvariantHolds, DataHolds, PTL DEF Spec

(* A get that gets to its end has the whole of the remote file, read in as  *)
(* many answers as it takes.                                                *)
THEOREM GotIsWholeHolds ==
  ASSUME OpensComeWhole, FewLogs(2)
  PROVE  Spec => []GotIsWhole
<1>1. Init => GetGoes /\ GotIsWhole
  BY DEF Init, EfsInit, QcdmInit, NotRunning, NoCall, GetGoes, GotIsWhole
<1>2. IInv /\ DataOK /\ GetGoes /\ GotIsWhole /\ [Next]_vars =>
        GetGoes' /\ GotIsWhole'
  BY GetKeeps
<1> QED
  BY <1>1, <1>2, DiagInvariantHolds, DataHolds, PTL DEF Spec

(* A put that gets to its end has put all of the local file over the        *)
(* beginning of the remote one, in as many writes as the phone takes, and   *)
(* has left the rest of it.                                                 *)
THEOREM PutIsWrittenHolds ==
  ASSUME OpensComeWhole, FewLogs(IF NoData \in Datas THEN 1 ELSE 2)
  PROVE  Spec => []PutIsWritten
<1>1. Init => PutGoes /\ PutIsWritten
  BY DEF Init, EfsInit, QcdmInit, NotRunning, NoCall, PutGoes, PutIsWritten
<1>2. IInv /\ DataOK /\ PutGoes /\ PutIsWritten /\ [Next]_vars =>
        PutGoes' /\ PutIsWritten'
  BY PutKeeps
<1> QED
  BY <1>1, <1>2, DiagInvariantHolds, DataHolds, PTL DEF Spec

----------------------------------------------------------------------------
(* Paths.                                                                   *)

(* What a path is once its last slash is off, and with one more.            *)
LEMMA TrimmedIs ==
  ASSUME NEW S, NEW path \in Seq(S), NEW q, q = Trimmed(path)
  PROVE  /\ q \in Seq(S)
         /\ Len(q) \in Nat /\ Len(q) <= Len(path)
         /\ \A i \in 1 .. Len(q) : q[i] = path[i]
         /\ Len(path) > 1 /\ path[Len(path)] = "/" => Len(q) = Len(path) - 1
         /\ ~ (Len(path) > 1 /\ path[Len(path)] = "/") => q = path
<1>1. CASE Len(path) > 1 /\ path[Len(path)] = "/"
  <2>1. q = SubSeq(path, 1, Len(path) - 1)
    BY <1>1 DEF Trimmed, Front
  <2>2. Len(path) \in Nat /\ Len(path) - 1 \in 0 .. Len(path)
    BY <1>1
  <2> QED
    BY <1>1, <2>1, <2>2, FirstPart
<1>2. CASE ~ (Len(path) > 1 /\ path[Len(path)] = "/")
  <2>1. q = path
    BY <1>2 DEF Trimmed
  <2> QED
    BY <1>2, <2>1
<1> QED
  BY <1>1, <1>2

LEMMA WellNamedTrimmed ==
  ASSUME NEW path, WellNamed(path), NEW q, q = Trimmed(path)
  PROVE  /\ WellNamed(q)
         /\ Len(q) \in Nat
         /\ Len(q) % 2 = 0 \/ (Len(q) = 1 /\ q = Root)
<1>0. PICK S : S = Letters \cup {"/"}
  OBVIOUS
<1>1. path \in Seq(S) /\ Len(path) \in Nat
  BY <1>0 DEF WellNamed
<1>2. /\ q \in Seq(S)
      /\ Len(q) \in Nat /\ Len(q) <= Len(path)
      /\ \A i \in 1 .. Len(q) : q[i] = path[i]
      /\ Len(path) > 1 /\ path[Len(path)] = "/" => Len(q) = Len(path) - 1
      /\ ~ (Len(path) > 1 /\ path[Len(path)] = "/") => q = path
  BY <1>1, TrimmedIs
<1>3. \A i \in 1 .. Len(path) : (path[i] = "/") = (i % 2 = 1)
  BY <1>1 DEF WellNamed
<1>4. WellNamed(q)
  <2>1. DOMAIN q = 1 .. Len(q)
    BY <1>2
  <2>2. ASSUME NEW i \in DOMAIN q
        PROVE  (q[i] = "/") = (i % 2 = 1)
    <3>1. i \in 1 .. Len(q)
      BY <2>1
    <3>2. i \in 1 .. Len(path) /\ q[i] = path[i]
      BY <1>1, <1>2, <3>1
    <3> QED
      BY <1>3, <3>2
  <2> QED
    BY <1>0, <1>2, <2>2 DEF WellNamed
<1>5. PICK n : n = Len(path)
  OBVIOUS
<1>6. CASE n = 1
  <2>0. ~ (Len(path) > 1 /\ path[Len(path)] = "/")
    BY <1>5, <1>6
  <2>1. q = path /\ Len(q) = 1
    BY <1>2, <1>5, <1>6, <2>0
  <2>2. path[1] = "/"
    <3>1. 1 \in 1 .. Len(path) /\ 1 % 2 = 1
      BY <1>5, <1>6
    <3> QED
      BY <1>3, <3>1
  <2>3. path = Root
    <3>1. PICK root : root = Root
      OBVIOUS
    <3>2. Len(root) = 1 /\ root[1] = "/"
      BY <3>1 DEF Root
    <3>3. root \in Seq(S)
      BY <1>0, <3>1 DEF Root
    <3>4. Len(path) = Len(root) /\ \A i \in 1 .. Len(path) : path[i] = root[i]
      BY <1>5, <1>6, <2>2, <3>2
    <3>5. path = root
      BY <1>1, <3>3, <3>4, SeqEqual
    <3> QED
      BY <3>1, <3>5
  <2> QED
    BY <1>4, <2>1, <2>3
<1>7. CASE n > 1
  <2>1. n \in 1 .. n /\ n \in Nat
    BY <1>1, <1>5, <1>7
  <2>2. (path[n] = "/") = (n % 2 = 1)
    BY <1>3, <1>5, <2>1
  <2>3. CASE n % 2 = 1
    <3>1. Len(q) = n - 1
      BY <1>2, <1>5, <1>7, <2>2, <2>3
    <3>2. (n - 1) % 2 = 0
      BY <2>1, <2>3
    <3> QED
      BY <1>2, <1>4, <3>1, <3>2
  <2>4. CASE n % 2 # 1
    <3>1. Len(q) = n
      BY <1>2, <1>5, <1>7, <2>2, <2>4
    <3>2. n % 2 = 0
      BY <2>1, <2>4
    <3> QED
      BY <1>2, <1>4, <3>1, <3>2
  <2> QED
    BY <2>3, <2>4
<1>8. CASE n = 0
  <2>1. q = path /\ Len(q) = 0 /\ 0 % 2 = 0
    BY <1>2, <1>5, <1>8
  <2> QED
    BY <1>4, <2>1
<1> QED
  BY <1>1, <1>5, <1>6, <1>7, <1>8

LEMMA WellNamedPart ==
  ASSUME NEW path, WellNamed(path), NEW k \in 0 .. Len(path)
  PROVE  LET q == SubSeq(path, 1, k)
         IN  WellNamed(q) /\ Len(q) = k /\ \A i \in 1 .. k : q[i] = path[i]
<1>q. PICK q : q = SubSeq(path, 1, k)
  OBVIOUS
<1>0. PICK S : S = Letters \cup {"/"}
  OBVIOUS
<1>1. path \in Seq(S) /\ \A i \in 1 .. Len(path) : (path[i] = "/") = (i % 2 = 1)
  BY <1>0 DEF WellNamed
<1>2. q \in Seq(S) /\ Len(q) = k /\ \A i \in 1 .. k : q[i] = path[i]
  BY <1>1, <1>q, FirstPart
<1>3. DOMAIN q = 1 .. k /\ Len(path) \in Nat
  BY <1>1, <1>2
<1>4. ASSUME NEW i \in DOMAIN q
      PROVE  (q[i] = "/") = (i % 2 = 1)
  <2>1. i \in 1 .. k /\ i \in 1 .. Len(path)
    BY <1>3
  <2> QED
    BY <1>1, <1>2, <2>1
<1>5. WellNamed(q)
  BY <1>0, <1>2, <1>4 DEF WellNamed
<1> QED
  BY <1>q, <1>2, <1>5

(* What has been trimmed is trimmed.                                        *)
LEMMA TrimmedStays ==
  ASSUME NEW q, WellNamed(q), Len(q) % 2 = 0 \/ Len(q) = 1
  PROVE  Trimmed(q) = q
<1>1. Len(q) \in Nat /\ \A i \in 1 .. Len(q) : (q[i] = "/") = (i % 2 = 1)
  BY DEF WellNamed
<1>2. PICK n : n = Len(q)
  OBVIOUS
<1>3. CASE n > 1
  <2>1. n \in 1 .. n /\ n % 2 # 1
    BY <1>1, <1>2, <1>3
  <2>2. q[Len(q)] # "/"
    BY <1>1, <1>2, <2>1
  <2> QED
    BY <2>2 DEF Trimmed
<1>4. CASE ~ (n > 1)
  BY <1>2, <1>4 DEF Trimmed
<1> QED
  BY <1>3, <1>4

(* A file, a directory or a link is put into a directory.                   *)
LEMMA EntryGoesIn ==
  ASSUME NEW p, PhoneOK(p), TreeOK(p.tree), NEW path, WellNamed(path),
         NEW q, q = Trimmed(path), q \notin DOMAIN p.tree,
         IsA(p, Parent(q), "dir"), NEW node
  PROVE  TreeOK(Put(p, q, node).tree)
<1> DEFINE t == Put(p, q, node).tree
<1>1. /\ DOMAIN t = DOMAIN p.tree \cup {q}
      /\ \A y \in DOMAIN p.tree : t[y] = p.tree[y]
  BY PutIs
<1> HIDE DEF t
<1>2. /\ WellNamed(q) /\ Len(q) \in Nat
      /\ Len(q) % 2 = 0 \/ (Len(q) = 1 /\ q = Root)
  BY WellNamedTrimmed
<1>3. Len(q) # 0 /\ q # <<>>
  <2>1. CASE Len(q) = 0
    <3>1. q = <<>>
      BY <1>2, <2>1 DEF WellNamed
    <3>2. SubSeq(q, 1, Len(q) - 1) = <<>>
      BY <3>1
    <3>3. Trimmed(<<>>) = <<>>
      BY DEF Trimmed
    <3>4. Parent(q) = <<>>
      BY <3>2, <3>3 DEF Parent
    <3>5. <<>> \in DOMAIN p.tree
      BY <3>3, <3>4 DEF IsA
    <3> QED
      BY <3>5 DEF TreeOK
  <2>2. CASE Len(q) # 0
    BY <2>2
  <2> QED
    BY <2>1, <2>2
<1>4. PICK L : L = Len(q)
  OBVIOUS
<1>5. L \in Nat /\ L # 0 /\ (L % 2 = 0 \/ q = Root)
  BY <1>2, <1>3, <1>4
<1>6. PICK d : d = SubSeq(q, 1, L - 1)
  OBVIOUS
<1>7. WellNamed(d) /\ Len(d) = L - 1 /\ \A i \in 1 .. L - 1 : d[i] = q[i]
  <2>1. L - 1 \in 0 .. Len(q)
    BY <1>4, <1>5
  <2> QED
    BY <1>2, <1>6, <2>1, WellNamedPart
<1>8. PICK z : z = Trimmed(d)
  OBVIOUS
<1>9. WellNamed(z) /\ (Len(z) % 2 = 0 \/ Len(z) = 1) /\ Len(z) \in Nat
  BY <1>7, <1>8, WellNamedTrimmed
<1>10. z \in DOMAIN p.tree /\ p.tree[z].type = "dir"
  <2>1. Parent(q) = z
    BY <1>4, <1>6, <1>8 DEF Parent
  <2>2. Trimmed(z) = z
    BY <1>9, TrimmedStays
  <2> QED
    BY <2>1, <2>2 DEF IsA
<1>11. ASSUME NEW n \in 1 .. L - 1, n % 2 = 0
       PROVE  /\ SubSeq(q, 1, n) \in DOMAIN p.tree
              /\ p.tree[SubSeq(q, 1, n)].type = "dir"
  <2>1. L % 2 = 0
    <3>1. CASE q = Root
      <4>1. L = 1
        BY <1>4, <3>1 DEF Root
      <4> QED
        BY <1>11, <4>1
    <3> QED
      BY <1>5, <3>1
  <2>2. n \in Nat /\ n >= 2 /\ L >= 4 /\ n <= L - 2
    BY <1>5, <1>11, <2>1
  <2>3. Len(z) = L - 2 /\ \A i \in 1 .. L - 2 : z[i] = q[i]
    <3>1. L - 1 \in 1 .. L - 1 /\ (L - 1) % 2 = 1 /\ L - 1 > 1
      BY <1>5, <2>1, <2>2
    <3>2. d[L - 1] = "/"
      <4>1. DOMAIN d = 1 .. L - 1
        BY <1>7 DEF WellNamed
      <4> QED
        BY <1>7, <3>1, <4>1 DEF WellNamed
    <3>3. d \in Seq(Letters \cup {"/"})
      BY <1>7 DEF WellNamed
    <3>4. /\ \A i \in 1 .. Len(z) : z[i] = d[i]
          /\ Len(d) > 1 /\ d[Len(d)] = "/" => Len(z) = Len(d) - 1
      BY <1>8, <3>3, TrimmedIs
    <3>5. Len(z) = L - 2
      BY <1>5, <1>7, <3>1, <3>2, <3>4
    <3>6. \A i \in 1 .. L - 2 : i \in 1 .. Len(z) /\ i \in 1 .. L - 1
      BY <1>5, <3>5
    <3> QED
      BY <1>7, <3>4, <3>5, <3>6
  <2>4. PICK w : w = SubSeq(q, 1, n)
    OBVIOUS
  <2>5. WellNamed(w) /\ Len(w) = n /\ \A i \in 1 .. n : w[i] = q[i]
    <3>1. n \in 0 .. Len(q)
      BY <1>4, <1>5, <2>2
    <3> QED
      BY <1>2, <2>4, <3>1, WellNamedPart
  <2>6. PICK v : v = SubSeq(z, 1, n)
    OBVIOUS
  <2>7. WellNamed(v) /\ Len(v) = n /\ \A i \in 1 .. n : v[i] = z[i]
    <3>1. n \in 0 .. Len(z)
      BY <1>5, <2>2, <2>3
    <3> QED
      BY <1>9, <2>6, <3>1, WellNamedPart
  <2>8. v = w
    <3>1. \A i \in 1 .. n : i \in 1 .. L - 2
      BY <1>5, <2>2
    <3>2. \A i \in 1 .. n : v[i] = w[i]
      BY <2>3, <2>5, <2>7, <3>1
    <3>3. v \in Seq(Letters \cup {"/"}) /\ w \in Seq(Letters \cup {"/"})
      BY <2>5, <2>7 DEF WellNamed
    <3> QED
      BY <2>5, <2>7, <3>2, <3>3, SeqEqual
  <2>9. CASE n = L - 2
    <3>1. v = z
      <4>1. z \in Seq(Letters \cup {"/"})
        BY <1>9 DEF WellNamed
      <4>2. n = Len(z)
        BY <2>3, <2>9
      <4> QED
        BY <2>6, <4>1, <4>2, WholePart
    <3> QED
      BY <1>10, <2>4, <2>8, <3>1
  <2>10. CASE n < L - 2
    <3>1. n \in 1 .. Len(z) - 1
      BY <1>5, <2>2, <2>3, <2>10
    <3>2. v \in DOMAIN p.tree /\ p.tree[v].type = "dir"
      BY <1>10, <1>11, <2>6, <3>1 DEF TreeOK
    <3> QED
      BY <2>4, <2>8, <3>2
  <2> QED
    BY <1>5, <2>2, <2>9, <2>10
<1>12. ASSUME NEW y \in DOMAIN t
       PROVE  /\ WellNamed(y)
              /\ y # <<>>
              /\ y = Root \/ Len(y) % 2 = 0
              /\ \A n \in 1 .. Len(y) - 1 :
                   n % 2 = 0 => /\ SubSeq(y, 1, n) \in DOMAIN t
                                /\ t[SubSeq(y, 1, n)].type = "dir"
  <2>1. CASE y \in DOMAIN p.tree
    BY <1>1, <2>1 DEF TreeOK
  <2>2. CASE y = q
    BY <1>1, <1>2, <1>3, <1>4, <1>5, <1>11, <2>2
  <2> QED
    BY <1>1, <2>1, <2>2
<1> QED
  BY <1>12 DEF TreeOK, t

(* A path goes on with a name or a slash.                                   *)
LEMMA WellNamedGoesOn ==
  ASSUME NEW path, WellNamed(path), NEW c,
         \/ c \in Letters /\ Len(path) % 2 = 1
         \/ c = "/" /\ Len(path) % 2 = 0
  PROVE  LET a == Append(path, c)
         IN  /\ WellNamed(a)
             /\ Len(a) = Len(path) + 1
             /\ \A i \in 1 .. Len(path) : a[i] = path[i]
             /\ a[Len(path) + 1] = c
<1>a. PICK a : a = Append(path, c)
  OBVIOUS
<1>0. PICK S : S = Letters \cup {"/"}
  OBVIOUS
<1>1. /\ path \in Seq(S) /\ Len(path) \in Nat
      /\ \A i \in 1 .. Len(path) : (path[i] = "/") = (i % 2 = 1)
  BY <1>0 DEF WellNamed
<1>2. c \in S
  BY <1>0
<1>3. /\ a \in Seq(S) /\ Len(a) = Len(path) + 1
      /\ \A i \in 1 .. Len(path) : a[i] = path[i]
      /\ a[Len(path) + 1] = c
  BY <1>a, <1>1, <1>2, AppendProperties
<1>4. (c = "/") = ((Len(path) + 1) % 2 = 1)
  <2>1. PICK n \in Nat : n = Len(path)
    BY <1>1
  <2>2. n % 2 = 1 => (n + 1) % 2 # 1
    OBVIOUS
  <2>3. n % 2 = 0 => (n + 1) % 2 = 1
    OBVIOUS
  <2>4. "/" \notin Letters
    BY TreeAssumption
  <2> QED
    BY <2>1, <2>2, <2>3, <2>4
<1>5. WellNamed(a)
  <2>1. ASSUME NEW i \in 1 .. Len(a)
        PROVE  (a[i] = "/") = (i % 2 = 1)
    <3>1. CASE i \in 1 .. Len(path)
      BY <1>1, <1>3, <3>1
    <3>2. CASE i = Len(path) + 1
      BY <1>3, <1>4, <3>2
    <3> QED
      BY <1>1, <1>3, <3>1, <3>2
  <2>2. DOMAIN a = 1 .. Len(a)
    BY <1>3
  <2>3. \A i \in DOMAIN a : (a[i] = "/") = (i % 2 = 1)
    BY <2>1, <2>2
  <2> QED
    BY <1>0, <1>3, <2>3 DEF WellNamed
<1> QED
  BY <1>a, <1>3, <1>5

(* A directory's path with the slash that its entries have behind it.       *)
LEMMA SlashedIs ==
  ASSUME NEW path, WellNamed(path), path # <<>>,
         NEW s, s = Slashed(path), NEW q, q = Trimmed(path)
  PROVE  /\ WellNamed(s) /\ Len(s) \in Nat /\ Len(s) % 2 = 1
         /\ Slashed(q) = s
         /\ WellNamed(q) /\ Len(q) \in Nat
         /\ Trimmed(q) = q
         /\ \/ q = Root /\ s = Root
            \/ /\ Len(q) % 2 = 0 /\ Len(q) > 0 /\ Len(s) = Len(q) + 1
               /\ \A i \in 1 .. Len(q) : s[i] = q[i]
<1>0. PICK S : S = Letters \cup {"/"}
  OBVIOUS
<1>1. /\ path \in Seq(S) /\ Len(path) \in Nat
      /\ \A i \in 1 .. Len(path) : (path[i] = "/") = (i % 2 = 1)
  BY <1>0 DEF WellNamed
<1>2. PICK n : n = Len(path)
  OBVIOUS
<1>3. n \in Nat /\ n > 0
  BY <1>1, <1>2
<1>4. (path[n] = "/") = (n % 2 = 1)
  BY <1>1, <1>2, <1>3
<1>5. /\ WellNamed(q) /\ Len(q) \in Nat
      /\ Len(q) % 2 = 0 \/ (Len(q) = 1 /\ q = Root)
  BY WellNamedTrimmed
<1>6. Trimmed(q) = q
  BY <1>5, TrimmedStays
<1>7. /\ q \in Seq(S) /\ Len(q) <= Len(path)
      /\ \A i \in 1 .. Len(q) : q[i] = path[i]
      /\ Len(path) > 1 /\ path[Len(path)] = "/" => Len(q) = Len(path) - 1
      /\ ~ (Len(path) > 1 /\ path[Len(path)] = "/") => q = path
  BY <1>1, TrimmedIs
<1>8. CASE n % 2 = 0
  <2>1. q = path /\ path[Len(path)] # "/"
    BY <1>2, <1>3, <1>4, <1>7, <1>8
  <2>2. s = Append(path, "/")
    BY <2>1 DEF Slashed
  <2>3. /\ WellNamed(s) /\ Len(s) = n + 1
        /\ \A i \in 1 .. n : s[i] = path[i]
    BY <1>2, <1>8, <2>2, WellNamedGoesOn
  <2>4. (n + 1) % 2 = 1 /\ n + 1 \in Nat
    BY <1>3, <1>8
  <2> QED
    BY <1>2, <1>3, <1>5, <1>6, <1>8, <2>1, <2>3, <2>4
<1>9. CASE n % 2 = 1
  <2>1. path[Len(path)] = "/" /\ s = path
    BY <1>2, <1>4, <1>9 DEF Slashed
  <2>2. CASE n = 1
    <3>1. ~ (Len(path) > 1 /\ path[Len(path)] = "/")
      BY <1>2, <2>2
    <3>2. q = path /\ Len(q) = 1
      BY <1>2, <1>7, <2>2, <3>1
    <3>3. q = Root
      BY <1>5, <3>2
    <3> QED
      BY <1>2, <1>3, <1>5, <1>6, <1>9, <2>1, <3>2, <3>3
  <2>3. CASE n # 1
    <3>1. n > 1 /\ n - 1 > 0 /\ (n - 1) % 2 = 0 /\ n - 1 \in Nat /\ (n - 1) + 1 = n
      BY <1>3, <1>9, <2>3
    <3>2. Len(q) = n - 1
      BY <1>2, <1>7, <2>1, <3>1
    <3>3. q[Len(q)] # "/"
      <4>1. DOMAIN q = 1 .. Len(q)
        BY <1>7
      <4>2. n - 1 \in 1 .. n - 1
        BY <3>1
      <4> QED
        BY <1>5, <3>1, <3>2, <4>1, <4>2 DEF WellNamed
    <3>4. PICK a : a = Append(q, "/")
      OBVIOUS
    <3>5. /\ WellNamed(a) /\ Len(a) = n
          /\ \A i \in 1 .. n - 1 : a[i] = q[i]
          /\ a[n] = "/"
      BY <1>5, <3>1, <3>2, <3>4, WellNamedGoesOn
    <3>6. \A i \in 1 .. n : a[i] = path[i]
      <4>1. \A i \in 1 .. n : i \in 1 .. n - 1 \/ i = n
        BY <1>3
      <4> QED
        BY <1>2, <1>7, <2>1, <3>2, <3>5, <4>1
    <3>7. a = path
      <4>1. a \in Seq(S)
        BY <1>0, <3>5 DEF WellNamed
      <4> QED
        BY <1>1, <1>2, <3>5, <3>6, <4>1, SeqEqual
    <3>8. Slashed(q) = s
      BY <2>1, <3>3, <3>4, <3>7 DEF Slashed
    <3> QED
      BY <1>2, <1>5, <1>6, <1>7, <1>9, <2>1, <3>1, <3>2, <3>8
  <2> QED
    BY <2>2, <2>3
<1> QED
  BY <1>3, <1>8, <1>9

(* What is in a directory.                                                  *)
LEMMA UnderIs ==
  ASSUME NEW path, WellNamed(path), path # <<>>, NEW name \in Letters,
         NEW s, s = Slashed(path), NEW u, u = Under(path, name)
  PROVE  /\ WellNamed(u) /\ Len(u) = Len(s) + 1 /\ Len(u) \in Nat
         /\ Len(u) % 2 = 0
         /\ \A i \in 1 .. Len(s) : u[i] = s[i]
         /\ u[Len(u)] = name
         /\ Under(Trimmed(path), name) = u
<1>1. WellNamed(s) /\ Len(s) \in Nat /\ Len(s) % 2 = 1 /\ Slashed(Trimmed(path)) = s
  BY SlashedIs
<1>2. u = Append(s, name) /\ Under(Trimmed(path), name) = u
  BY <1>1 DEF Under
<1>3. PICK n \in Nat : n = Len(s)
  BY <1>1
<1>4. (n + 1) % 2 = 0 /\ n + 1 \in Nat
  BY <1>1, <1>3
<1>5. /\ WellNamed(u) /\ Len(u) = n + 1
      /\ \A i \in 1 .. n : u[i] = s[i]
      /\ u[n + 1] = name
  BY <1>1, <1>2, <1>3, WellNamedGoesOn
<1> QED
  BY <1>2, <1>3, <1>4, <1>5

(* What is below a directory is an entry of it, or below one that is a      *)
(* directory.                                                               *)
LEMMA EntryOnTheWay ==
  ASSUME NEW tree, TreeOK(tree), NEW path, WellNamed(path), path # <<>>,
         NEW s, s = Slashed(path), NEW y \in DOMAIN tree,
         Len(s) < Len(y), \A i \in 1 .. Len(s) : s[i] = y[i]
  PROVE  \E l \in Letters : LET u == Under(path, l) IN
           /\ u \in DOMAIN tree
           /\ \/ y = u
              \/ /\ tree[u].type = "dir"
                 /\ Len(Slashed(u)) < Len(y)
                 /\ \A i \in 1 .. Len(Slashed(u)) : Slashed(u)[i] = y[i]
<1>0. PICK S : S = Letters \cup {"/"}
  OBVIOUS
<1>1. /\ WellNamed(y) /\ (y = Root \/ Len(y) % 2 = 0)
      /\ \A n \in 1 .. Len(y) - 1 :
           n % 2 = 0 => /\ SubSeq(y, 1, n) \in DOMAIN tree
                        /\ tree[SubSeq(y, 1, n)].type = "dir"
  BY DEF TreeOK
<1>2. /\ y \in Seq(S) /\ Len(y) \in Nat
      /\ \A i \in 1 .. Len(y) : (y[i] = "/") = (i % 2 = 1)
  BY <1>0, <1>1 DEF WellNamed
<1>3. Len(s) \in Nat /\ Len(s) % 2 = 1
  BY SlashedIs
<1>4. PICK k : k = Len(s)
  OBVIOUS
<1>5. PICK L : L = Len(y)
  OBVIOUS
<1>6. /\ k \in Nat /\ L \in Nat /\ k % 2 = 1 /\ k >= 1 /\ k < L
      /\ k + 1 \in 1 .. L /\ (k + 1) % 2 = 0 /\ (k + 1) % 2 # 1
  BY <1>2, <1>3, <1>4, <1>5
<1>7. L % 2 = 0
  <2>1. CASE y = Root
    <3>1. L = 1
      BY <1>5, <2>1 DEF Root
    <3> QED
      BY <1>6, <3>1
  <2> QED
    BY <1>1, <1>5, <2>1
<1>8. PICK l : l = y[k + 1]
  OBVIOUS
<1>9. l \in Letters
  <2>1. l \in S /\ l # "/"
    BY <1>2, <1>5, <1>6, <1>8
  <2> QED
    BY <1>0, <2>1
<1>10. PICK u : u = Under(path, l)
  OBVIOUS
<1>11. /\ WellNamed(u) /\ Len(u) = k + 1 /\ Len(u) % 2 = 0
       /\ \A i \in 1 .. k : u[i] = s[i]
       /\ u[k + 1] = l
  <2>1. /\ WellNamed(u) /\ Len(u) = Len(s) + 1 /\ Len(u) % 2 = 0
        /\ \A i \in 1 .. Len(s) : u[i] = s[i]
        /\ u[Len(u)] = l
    BY <1>9, <1>10, UnderIs
  <2> QED
    BY <1>4, <2>1
<1>12. \A i \in 1 .. k + 1 : u[i] = y[i]
  <2>1. \A i \in 1 .. k + 1 : i \in 1 .. k \/ i = k + 1
    BY <1>6
  <2> QED
    BY <1>4, <1>8, <1>11, <2>1
<1>13. u \in Seq(S)
  BY <1>0, <1>11 DEF WellNamed
<1>14. CASE L = k + 1
  <2>0. Len(u) = Len(y) /\ \A i \in 1 .. Len(u) : u[i] = y[i]
    BY <1>5, <1>11, <1>12, <1>14
  <2>1. u = y
    BY <1>2, <1>13, <2>0, SeqEqual
  <2> QED
    BY <1>9, <1>10, <2>1
<1>15. CASE L # k + 1
  <2>1. k + 2 < L /\ k + 2 \in 1 .. L /\ (k + 2) % 2 = 1 /\ k + 1 \in 1 .. L - 1
    BY <1>6, <1>7, <1>15
  <2>2. PICK w : w = SubSeq(y, 1, k + 1)
    OBVIOUS
  <2>3. w \in DOMAIN tree /\ tree[w].type = "dir"
    BY <1>1, <1>5, <1>6, <2>1, <2>2
  <2>4. WellNamed(w) /\ Len(w) = k + 1 /\ \A i \in 1 .. k + 1 : w[i] = y[i]
    <3>1. k + 1 \in 0 .. Len(y)
      BY <1>5, <1>6
    <3> QED
      BY <1>1, <2>2, <3>1, WellNamedPart
  <2>5. w = u
    <3>1. w \in Seq(S)
      BY <1>0, <2>4 DEF WellNamed
    <3> QED
      BY <1>11, <1>12, <1>13, <2>4, <3>1, SeqEqual
  <2>6. u[Len(u)] # "/"
    <3>1. DOMAIN u = 1 .. k + 1
      BY <1>11, <1>13
    <3>2. k + 1 \in 1 .. k + 1
      BY <1>6
    <3> QED
      BY <1>6, <1>11, <3>1, <3>2 DEF WellNamed
  <2>7. PICK a : a = Slashed(u)
    OBVIOUS
  <2>8. a = Append(u, "/")
    BY <2>6, <2>7 DEF Slashed
  <2>9. /\ Len(a) = k + 2
        /\ \A i \in 1 .. k + 1 : a[i] = u[i]
        /\ a[k + 2] = "/"
    <3>1. /\ Len(a) = Len(u) + 1
          /\ \A i \in 1 .. Len(u) : a[i] = u[i]
          /\ a[Len(u) + 1] = "/"
      BY <1>11, <2>8, WellNamedGoesOn
    <3>2. (k + 1) + 1 = k + 2
      BY <1>6
    <3> QED
      BY <1>11, <3>1, <3>2
  <2>10. y[k + 2] = "/"
    BY <1>2, <1>5, <2>1
  <2>11. \A i \in 1 .. k + 2 : a[i] = y[i]
    <3>1. \A i \in 1 .. k + 2 : i \in 1 .. k + 1 \/ i = k + 2
      BY <1>6
    <3> QED
      BY <1>12, <2>9, <2>10, <3>1
  <2>12. Len(Slashed(u)) < Len(y) /\ \A i \in 1 .. Len(Slashed(u)) : Slashed(u)[i] = y[i]
    BY <1>5, <2>1, <2>7, <2>9, <2>11
  <2> QED
    BY <1>9, <1>10, <2>3, <2>5, <2>12
<1> QED
  BY <1>14, <1>15

(* What is in place of a file takes nothing out of the tree.                *)
LEMMA FilePutIn ==
  ASSUME NEW p, PhoneOK(p), TreeOK(p.tree), NEW path \in DOMAIN p.tree,
         p.tree[path].type = "file", NEW node
  PROVE  TreeOK(Put(p, path, node).tree)
<1>0. PICK q : q = Put(p, path, node)
  OBVIOUS
<1>1. PICK t : t = q.tree
  OBVIOUS
<1>2. /\ DOMAIN t = DOMAIN p.tree
      /\ \A y \in DOMAIN p.tree : y # path => t[y] = p.tree[y]
  <2>1. /\ DOMAIN q.tree = DOMAIN p.tree \cup {path}
        /\ \A y \in DOMAIN p.tree : y # path => q.tree[y] = p.tree[y]
    BY <1>0, PutIs
  <2> QED
    BY <1>1, <2>1
<1>3. \A y \in DOMAIN p.tree : p.tree[y].type = "dir" => t[y] = p.tree[y]
  BY <1>2
<1>4. TreeOK(t)
  BY <1>2, <1>3 DEF TreeOK
<1> QED
  BY <1>0, <1>1, <1>4

LEMMA DroppedFrom ==
  ASSUME NEW p, PhoneOK(p), TreeOK(p.tree), NEW path,
         \A y \in DOMAIN p.tree : \A n \in 1 .. Len(y) - 1 :
           n % 2 = 0 => SubSeq(y, 1, n) # path
  PROVE  TreeOK(Dropping(p, path).tree)
<1>1. PICK t : t = Dropping(p, path).tree
  OBVIOUS
<1>2. t = [r \in DOMAIN p.tree \ {path} |-> p.tree[r]]
  BY <1>1 DEF Dropping, PhoneOK
<1>3. TreeOK(t)
  BY <1>2 DEF TreeOK
<1> QED
  BY <1>1, <1>3

(* A directory in which nothing is has nothing below it. *)
LEMMA NothingBelow ==
  ASSUME NEW p, TreeOK(p.tree), NEW path, WellNamed(path), path # <<>>,
         Names(p, path) = {}, NEW y \in DOMAIN p.tree,
         NEW n \in 1 .. Len(y) - 1, n % 2 = 0
  PROVE  SubSeq(y, 1, n) # Trimmed(path)
<1> SUFFICES ASSUME SubSeq(y, 1, n) = Trimmed(path)
             PROVE  FALSE
  OBVIOUS
<1>1. WellNamed(y) /\ (y = Root \/ Len(y) % 2 = 0)
  BY DEF TreeOK
<1>2. Len(y) \in Nat /\ n \in Nat /\ n >= 2 /\ n \in 0 .. Len(y)
  BY <1>1 DEF WellNamed
<1>3. PICK q : q = Trimmed(path)
  OBVIOUS
<1>4. Len(q) = n /\ \A i \in 1 .. n : q[i] = y[i]
  BY <1>1, <1>2, <1>3, WellNamedPart
<1>5. PICK s : s = Slashed(path)
  OBVIOUS
<1>6. q # Root
  <2>1. q = Root => Len(q) = 1
    BY DEF Root
  <2> QED
    BY <1>2, <1>4, <2>1
<1>7. /\ WellNamed(s)
      /\ Len(s) = n + 1
      /\ \A i \in 1 .. n : s[i] = q[i]
  BY <1>3, <1>4, <1>5, <1>6, SlashedIs
<1>8. Len(y) % 2 = 0
  <2>1. y = Root => Len(y) = 1
    BY DEF Root
  <2> QED
    BY <1>1, <1>2, <2>1
<1>9. n + 1 < Len(y) /\ n + 1 \in 1 .. Len(y) /\ (n + 1) % 2 = 1
  BY <1>2, <1>8
<1>10. s[n + 1] = "/" /\ y[n + 1] = "/"
  <2>1. DOMAIN s = 1 .. n + 1 /\ DOMAIN y = 1 .. Len(y)
    BY <1>1, <1>7 DEF WellNamed
  <2>2. n + 1 \in DOMAIN s /\ n + 1 \in DOMAIN y
    BY <1>2, <1>9, <2>1
  <2>3. PICK m : m = n + 1
    OBVIOUS
  <2>4. m \in DOMAIN s /\ m \in DOMAIN y /\ m % 2 = 1
    BY <1>9, <2>2, <2>3
  <2>5. s[m] = "/"
    BY <1>7, <2>4 DEF WellNamed
  <2>6. y[m] = "/"
    BY <1>1, <2>4 DEF WellNamed
  <2> QED
    BY <2>3, <2>5, <2>6
<1>11. \A i \in 1 .. Len(s) : s[i] = y[i]
  <2>1. \A i \in 1 .. n + 1 : i \in 1 .. n \/ i = n + 1
    BY <1>2
  <2> QED
    BY <1>4, <1>7, <1>10, <2>1
<1>12. Len(s) < Len(y)
  BY <1>7, <1>9
<1>13. \E l \in Letters : Under(path, l) \in DOMAIN p.tree
  BY <1>5, <1>11, <1>12, EntryOnTheWay
<1> QED
  BY <1>13 DEF Names

(* What a file that is created makes of the tree. *)
LEMMA OpenTree ==
  ASSUME NEW p, PhoneOK(p), FilesOK(p), TreeOK(p.tree),
         NEW req, EfsReq(req), Sound(req), req.sub = "Open",
         NEW s, s = OpensFile(p, req)
  PROVE  TreeOK(s.phone.tree)
<1> DEFINE path == Trimmed(req.path)
           node == File(NoData)
<1>1. PICK q : q = Put(p, path, node)
  OBVIOUS
<1>2. CASE /\ req.creates
           /\ ~ Exists(p, req.path)
           /\ IsA(p, Parent(path), "dir")
           /\ s = Opens(q, req, "file", "fp", TRUE)
  <2>1. PhoneOK(q)
    BY <1>1, PutOK DEF File, NodeTypes, Alike
  <2>2. WellNamed(req.path) /\ path \notin DOMAIN p.tree
    BY <1>2 DEF Sound, Exists
  <2>3. TreeOK(q.tree)
    BY <1>1, <1>2, <2>2, EntryGoesIn
  <2>4. node.type = "file" /\ node.data = NoData /\ NoData \in Seq(Nat)
    BY DEF File, NoData
  <2>5. FilesOK(q)
    BY <1>1, <2>4, PutFiles
  <2>6. IsA(q, req.path, "file")
    BY <1>1, <2>4, PutIs DEF IsA
  <2>7. OpensTo(q, req, "file", "fp", s)
    BY <1>2 DEF Opens, OpensTo
  <2>8. s.phone.tree = q.tree
    BY <2>1, <2>5, <2>6, <2>7, OpensFiles
  <2> QED
    BY <2>3, <2>8
<1>3. CASE s = Opens(p, req, "file", "fp", IsA(p, req.path, "file"))
  <2>1. CASE IsA(p, req.path, "file")
    <3>1. OpensTo(p, req, "file", "fp", s)
      BY <1>3, <2>1 DEF Opens, OpensTo
    <3> QED
      BY <2>1, <3>1, OpensFiles
  <2>2. CASE ~ IsA(p, req.path, "file")
    <3>1. s.phone = p
      BY <1>3, <2>2 DEF Opens, Refused, Done
    <3> QED
      BY <3>1
  <2> QED
    BY <2>1, <2>2
<1> QED
  BY <1>1, <1>2, <1>3 DEF OpensFile

(* Every request leaves a tree.                                             *)
LEMMA ServesTree ==
  ASSUME NEW p, PhoneOK(p), FilesOK(p), TreeOK(p.tree),
         NEW req, Req(req), Sound(req)
  PROVE  TreeOK(Serve(p, req).phone.tree)
<1>1. PICK s : s = Serve(p, req)
  OBVIOUS
<1> SUFFICES TreeOK(s.phone.tree)
  BY <1>1
<1>2. CASE QcdmReq(req)
  <2>1. s.phone.tree = p.tree
    BY <1>1, <1>2 DEF Serve, ServesQcdm, QcdmReq, Done, PhoneOK
  <2> QED
    BY <2>1
<1>3. CASE EfsReq(req)
  <2>0. s = ServesEfs(p, req)
    BY <1>1, <1>3 DEF Serve, EfsReq
  <2>1. s = Refused(p, req) => TreeOK(s.phone.tree)
    BY DEF Refused, Done
  <2>2. \A q, allowed :
          (allowed => TreeOK(q.tree)) /\ s = Doing(p, req, allowed, q)
            => TreeOK(s.phone.tree)
    <3> TAKE q, allowed
    <3>1. CASE allowed
      BY <3>1 DEF Doing, Done
    <3>2. CASE ~ allowed
      BY <2>1, <3>2 DEF Doing
    <3> QED
      BY <3>1, <3>2
  <2>3. \A answer : s = Done(p, answer) => TreeOK(s.phone.tree)
    BY DEF Done
  <2>4. CASE req.sub = "Open"
    <3>1. s = OpensFile(p, req)
      BY <2>0, <2>4 DEF ServesEfs
    <3> QED
      BY <1>3, <2>4, <3>1, OpenTree
  <2>5. CASE req.sub \in {"Close", "CloseDir", "FsImageClose"}
    <3>1. PICK kind : s = Closes(p, req, kind)
      BY <2>0, <2>5 DEF ServesEfs
    <3>2. s.phone.tree = p.tree
      BY <3>1, ClosesFiles
    <3> QED
      BY <3>2
  <2>6. CASE req.sub \in {"OpenDir", "FsImageOpen"}
    <3>1. PICK kind, field, allowed : /\ s = Opens(p, req, kind, field, allowed)
                                      /\ kind # "file"
      <4>1. CASE req.sub = "OpenDir"
        BY <2>0, <4>1 DEF ServesEfs
      <4>2. CASE req.sub = "FsImageOpen"
        <5>1. s = Opens(p, req, "image", "handle", TRUE)
          BY <2>0, <4>2 DEF ServesEfs
        <5>2. "image" # "file"
          OBVIOUS
        <5> QED
          BY <5>1, <5>2, Zenon
      <4> QED
        BY <2>6, <4>1, <4>2
    <3>2. OpensTo(p, req, kind, field, s)
      BY <3>1, Zenon DEF Opens, OpensTo
    <3>3. s.phone.tree = p.tree
      BY <3>1, <3>2, OpensFiles
    <3> QED
      BY <3>3
  <2>7. CASE req.sub = "Read"
    <3>1. s = Reads(p, req)
      BY <2>0, <2>7 DEF ServesEfs
    <3> QED
      BY <2>1, <2>3, <3>1, Zenon DEF Reads
  <2>8. CASE req.sub = "Write"
    <3>1. s = Writes(p, req)
      BY <2>0, <2>8 DEF ServesEfs
    <3>2. CASE s = Refused(p, req)
      BY <2>1, <3>2
    <3>3. CASE s # Refused(p, req)
      <4>1. IsOpen(p, "file", req.h)
        BY <3>1, <3>3, Zenon DEF Writes
      <4>2. PICK path : path = p.open[<<"file", req.h>>]
        OBVIOUS
      <4>3. PICK node : s.phone = Put(p, path, node)
        BY <3>1, <3>3, <4>1, <4>2, Zenon DEF Writes, Done
      <4>4. <<"file", req.h>> \in DOMAIN p.open /\ <<"file", req.h>>[1] = "file"
        BY <4>1 DEF IsOpen
      <4>5. path \in DOMAIN p.tree /\ p.tree[path].type = "file"
        BY <4>2, <4>4 DEF FilesOK
      <4> QED
        BY <4>3, <4>5, FilePutIn
    <3> QED
      BY <3>2, <3>3
  <2>9. CASE req.sub = "Fstat"
    BY <2>0, <2>1, <2>3, <2>9 DEF ServesEfs
  <2>10. CASE req.sub = "ReadDir"
    <3>1. s = ListsEntry(p, req)
      BY <2>0, <2>10 DEF ServesEfs
    <3> QED
      BY <2>1, <2>3, <3>1, Zenon DEF ListsEntry
  <2>11. CASE req.sub \in {"Unlink", "Rmdir"}
    <3>1. PICK allowed : /\ s = Doing(p, req, allowed, Dropping(p, Trimmed(req.path)))
                         /\ allowed => \/ IsA(p, req.path, "file")
                                       \/ /\ req.sub = "Rmdir"
                                          /\ IsA(p, req.path, "dir")
                                          /\ Names(p, req.path) = {}
      <4>1. CASE req.sub = "Unlink"
        BY <2>0, <4>1 DEF ServesEfs
      <4>2. CASE req.sub = "Rmdir"
        BY <2>0, <4>2 DEF ServesEfs
      <4> QED
        BY <2>11, <4>1, <4>2
    <3>2. PICK q : q = Trimmed(req.path)
      OBVIOUS
    <3>3. ASSUME IsA(p, req.path, "file"),
                 NEW y \in DOMAIN p.tree, NEW n \in 1 .. Len(y) - 1, n % 2 = 0
          PROVE  SubSeq(y, 1, n) # q
      BY <3>2, <3>3 DEF IsA, TreeOK
    <3>4. ASSUME req.sub = "Rmdir", IsA(p, req.path, "dir"), Names(p, req.path) = {},
                 NEW y \in DOMAIN p.tree, NEW n \in 1 .. Len(y) - 1, n % 2 = 0
          PROVE  SubSeq(y, 1, n) # q
      <4>1. WellNamed(req.path)
        BY <3>4 DEF Sound
      <4>2. req.path # <<>>
        <5>1. Trimmed(<<>>) = <<>>
          BY DEF Trimmed
        <5> QED
          BY <3>4, <5>1 DEF IsA, TreeOK
      <4> QED
        BY <3>2, <3>4, <4>1, <4>2, NothingBelow
    <3>5. allowed => TreeOK(Dropping(p, q).tree)
      BY <3>1, <3>3, <3>4, DroppedFrom
    <3> QED
      BY <2>2, <3>1, <3>2, <3>5
  <2>12. CASE req.sub = "Mkdir"
    <3>1. PICK allowed : /\ s = Doing(p, req, allowed, Put(p, Trimmed(req.path), Dir))
                         /\ allowed => /\ Trimmed(req.path) \notin DOMAIN p.tree
                                       /\ IsA(p, Parent(Trimmed(req.path)), "dir")
      BY <2>0, <2>12 DEF ServesEfs, Exists
    <3>2. WellNamed(req.path)
      BY <2>12 DEF Sound
    <3>3. allowed => TreeOK(Put(p, Trimmed(req.path), Dir).tree)
      BY <3>1, <3>2, EntryGoesIn
    <3> QED
      BY <2>2, <3>1, <3>3
  <2>13. CASE req.sub = "Symlink"
    <3>1. PICK link : link = [type |-> "link", data |-> req.path]
      OBVIOUS
    <3>2. PICK allowed : /\ s = Doing(p, req, allowed, Put(p, Trimmed(req.link), link))
                         /\ allowed => /\ Trimmed(req.link) \notin DOMAIN p.tree
                                       /\ IsA(p, Parent(Trimmed(req.link)), "dir")
      BY <2>0, <2>13, <3>1 DEF ServesEfs, Exists
    <3>3. WellNamed(req.link)
      BY <2>13 DEF Sound
    <3>4. allowed => TreeOK(Put(p, Trimmed(req.link), link).tree)
      BY <3>2, <3>3, EntryGoesIn
    <3> QED
      BY <2>2, <3>2, <3>4
  <2>14. CASE req.sub = "ReadLink"
    BY <2>0, <2>1, <2>3, <2>14 DEF ServesEfs
  <2>15. CASE req.sub = "Ftruncate"
    <3>1. CASE ~ IsOpen(p, "file", req.h)
      BY <2>0, <2>1, <2>15, <3>1 DEF ServesEfs
    <3>2. CASE IsOpen(p, "file", req.h)
      <4>1. PICK path : path = p.open[<<"file", req.h>>]
        OBVIOUS
      <4>2. PICK node : s.phone = Put(p, path, node)
        BY <2>0, <2>15, <3>2, <4>1 DEF ServesEfs, Done
      <4>3. <<"file", req.h>> \in DOMAIN p.open /\ <<"file", req.h>>[1] = "file"
        BY <3>2 DEF IsOpen
      <4>4. path \in DOMAIN p.tree /\ p.tree[path].type = "file"
        BY <4>1, <4>3 DEF FilesOK
      <4> QED
        BY <4>2, <4>4, FilePutIn
    <3> QED
      BY <3>1, <3>2
  <2>16. CASE req.sub \in {"Stat", "Lstat", "StatFS", "StatVFS_V2", "Chmod"}
    <3>1. s = Doing(p, req, Exists(p, req.path), p)
      BY <2>0, <2>16 DEF ServesEfs
    <3> QED
      BY <2>2, <3>1
  <2>17. CASE req.sub \in {"Hello", "Query", "DevInfo", "FactoryImageStart"}
    <3>1. s = Done(p, Answer(req.sub, <<>>))
      BY <2>0, <2>17 DEF ServesEfs
    <3> QED
      BY <2>3, <3>1
  <2>18. CASE req.sub \notin {"Open", "Close", "CloseDir", "FsImageClose", "OpenDir",
                              "FsImageOpen", "Read", "Write", "Fstat", "ReadDir",
                              "Unlink", "Rmdir", "Mkdir", "Symlink", "ReadLink",
                              "Ftruncate", "Stat", "Lstat", "StatFS", "StatVFS_V2",
                              "Chmod", "Hello", "Query", "DevInfo",
                              "FactoryImageStart"}
    <3>1. s = Refused(p, req)
      BY <2>0, <2>18 DEF ServesEfs
    <3> QED
      BY <2>1, <3>1
  <2> QED
    BY <2>4, <2>5, <2>6, <2>7, <2>8, <2>9, <2>10, <2>11, <2>12, <2>13, <2>14,
       <2>15, <2>16, <2>17, <2>18
<1> QED
  BY <1>2, <1>3 DEF Req

(* All of a finite set, one after the other.                                *)
LEMMA SetToSeqIs ==
  ASSUME NEW S, IsFiniteSet(S), NEW s, s = SetToSeq(S)
  PROVE  /\ s \in Seq(S)
         /\ \A x \in S : \E i \in 1 .. Len(s) : s[i] = x
<1> DEFINE n == Cardinality(S)
           D == 1 .. n
<1>1. n \in Nat /\ ExistsBijection(D, S)
  BY FS_CardinalityType
<1>2. PICK g : g \in Bijection(D, S)
  BY <1>1 DEF ExistsBijection
<1>3. g \in [D -> S] /\ IsInjective(g)
  BY <1>2 DEF Bijection, Injection, IsInjective
<1>4. s \in [D -> S] /\ IsInjective(s)
  BY <1>3 DEF SetToSeq
<1>5. s \in Injection(D, S)
  BY <1>4 DEF Injection, IsInjective
<1>6. IsFiniteSet(D) /\ Cardinality(D) = n
  BY <1>1, FS_Interval
<1>7. s \in Surjection(D, S)
  BY <1>5, <1>6, FS_Injection
<1>8. s \in Seq(S) /\ Len(s) = n
  BY <1>1, <1>4
<1> QED
  BY <1>7, <1>8 DEF Surjection

----------------------------------------------------------------------------
(* What the phone answers when an entry is asked for.                       *)

LEMMA EntryAnswerFields ==
  ASSUME NEW given
  PROVE  /\ "name" \in DOMAIN Answer("ReadDir", given).f
         /\ "entryType" \in DOMAIN Answer("ReadDir", given).f
<1>1. {"entryType", "name"} \subseteq
        Range(<<"dp", "sequenceNumber", "error", "entryType", "mode", "size",
                "atime", "mtime", "ctime", "name">>)
  BY DEF Range
<1> QED
  BY <1>1, AnswerTable DEF Answer

DirOf(p, req) == p.open[<<"dir", req.h>>]
NamesIn(p, dir) == SetToSeq(Names(p, dir))

(* The name that comes: that of an entry, or none past the last. *)
NameAt(p, req) ==
  LET names == NamesIn(p, DirOf(p, req))
  IN  IF req.sequence \in DOMAIN names THEN names[req.sequence] ELSE ""

LEMMA EntryServed ==
  ASSUME NEW p, NEW req, EfsReq(req), req.sub = "ReadDir", NEW s, s = Serve(p, req),
         IsOpen(p, "dir", req.h)
  PROVE  /\ s.phone = p
         /\ "name" \in DOMAIN s.answer.f
         /\ "entryType" \in DOMAIN s.answer.f
         /\ Got(s.answer, "name") = NameAt(p, req)
         /\ req.sequence \in DOMAIN NamesIn(p, DirOf(p, req)) =>
              Got(s.answer, "entryType") =
                TypeCode[p.tree[Under(DirOf(p, req), NameAt(p, req))].type]
<1>c. PICK names : names = NamesIn(p, DirOf(p, req))
  OBVIOUS
<1>d. /\ NameAt(p, req) = IF req.sequence \in DOMAIN names THEN names[req.sequence] ELSE ""
      /\ NamesIn(p, DirOf(p, req)) = names
  BY <1>c DEF NameAt
<1>a. PICK dir : dir = DirOf(p, req)
  OBVIOUS
<1>b. PICK n : n = req.sequence
  OBVIOUS
<1> DEFINE none == [dp |-> req.h, sequenceNumber |-> n]
           entry == [dp |-> req.h, sequenceNumber |-> n, name |-> names[n],
                     entryType |-> TypeCode[p.tree[Under(dir, names[n])].type]]
<1>1. s = ListsEntry(p, req)
  BY DEF Serve, ServesEfs, EfsReq
<1>2. s = Done(p, Answer("ReadDir", IF n \notin DOMAIN names THEN none ELSE entry))
  BY <1>1, <1>a, <1>b, <1>c DEF ListsEntry, DirOf, NamesIn
<1>3. s.phone = p
  BY <1>2 DEF Done
<1>4. CASE n \notin DOMAIN names
  <2>1. s.answer = Answer("ReadDir", none)
    BY <1>2, <1>4 DEF Done
  <2>2. "name" \notin DOMAIN none
    OBVIOUS
  <2> HIDE DEF none
  <2>3. Zero("name") = ""
    BY DEF Zero
  <2>4. "name" \in DOMAIN s.answer.f /\ "entryType" \in DOMAIN s.answer.f
    BY <2>1, EntryAnswerFields
  <2>5. Got(s.answer, "name") = Zero("name")
    BY <2>1, <2>2, <2>4, GotIs
  <2> QED
    BY <1>b, <1>d, <1>3, <1>4, <2>3, <2>4, <2>5
<1>5. CASE n \in DOMAIN names
  <2>1. s.answer = Answer("ReadDir", entry)
    BY <1>2, <1>5 DEF Done
  <2>2. /\ "name" \in DOMAIN entry /\ entry["name"] = names[n]
        /\ "entryType" \in DOMAIN entry
        /\ entry["entryType"] = TypeCode[p.tree[Under(dir, names[n])].type]
    OBVIOUS
  <2> HIDE DEF entry
  <2>4. "name" \in DOMAIN s.answer.f /\ "entryType" \in DOMAIN s.answer.f
    BY <2>1, EntryAnswerFields
  <2>5. /\ Got(s.answer, "name") = names[n]
        /\ Got(s.answer, "entryType") = TypeCode[p.tree[Under(dir, names[n])].type]
    BY <2>1, <2>2, <2>4, GotIs
  <2> QED
    BY <1>a, <1>b, <1>d, <1>3, <1>5, <2>4, <2>5
<1> QED
  BY <1>4, <1>5

(* The names that come are those of entries, or empty. *)
LEMMA NamesAre ==
  ASSUME NEW p, NEW dir, NEW names, names = NamesIn(p, dir)
  PROVE  /\ names \in Seq(Letters)
         /\ \A i \in DOMAIN names : /\ names[i] \in Letters
                                    /\ Under(dir, names[i]) \in DOMAIN p.tree
         /\ \A l \in Letters : Under(dir, l) \in DOMAIN p.tree =>
              \E i \in 1 .. Len(names) : names[i] = l
<1>1. PICK S : S = Names(p, dir)
  OBVIOUS
<1>2. S \subseteq Letters
  BY <1>1 DEF Names
<1>3. IsFiniteSet(S)
  BY <1>2, TreeAssumption, FS_Subset
<1>4. names \in Seq(S) /\ \A x \in S : \E i \in 1 .. Len(names) : names[i] = x
  BY <1>1, <1>3, SetToSeqIs DEF NamesIn
<1>5. \A i \in DOMAIN names : names[i] \in S
  BY <1>4
<1>6. names \in Seq(Letters)
  BY <1>2, <1>4, SeqMonotonic
<1> QED
  BY <1>1, <1>4, <1>5, <1>6 DEF Names

LEMMA AnswerNames ==
  ASSUME PhoneOK(phone), NEW req, Req(req)
  PROVE  LET answer == Serve(phone, req).answer
         IN  /\ Naming(answer) /\ Naming(Refusal(req))
             /\ answer.sub = "ReadDir" => "name" \in DOMAIN answer.f
<1>1. PICK s : s = Serve(phone, req)
  OBVIOUS
<1>2. s.answer.sub = req.sub
  BY <1>1, Serves
<1>3. Refusal(req).sub = req.sub
  BY RefusalOK
<1>4. CASE req.sub = "ReadDir"
  <2>1. EfsReq(req)
    BY <1>4 DEF Req, QcdmReq
  <2>2. /\ Got(Refusal(req), "name") = ""
        /\ "name" \in DOMAIN Refusal(req).f
    <3> DEFINE given == [error |-> 1]
    <3>1. Refusal(req) = Answer("ReadDir", given)
      BY <1>4, <2>1 DEF Refusal, EfsReq
    <3>2. "name" \notin DOMAIN given
      OBVIOUS
    <3> HIDE DEF given
    <3>3. "name" \in DOMAIN Answer("ReadDir", given).f
      BY EntryAnswerFields
    <3>4. Zero("name") = ""
      BY DEF Zero
    <3>5. Got(Answer("ReadDir", given), "name") = Zero("name")
      BY <3>2, <3>3, GotIs
    <3> QED
      BY <3>1, <3>3, <3>4, <3>5
  <2>3. CASE ~ IsOpen(phone, "dir", req.h)
    <3>1. s = Refused(phone, req)
      BY <1>1, <1>4, <2>1, <2>3 DEF Serve, ServesEfs, EfsReq, ListsEntry
    <3>2. s.answer = Refusal(req)
      BY <3>1 DEF Refused, Done
    <3> QED
      BY <1>1, <2>2, <3>2 DEF Naming
  <2>4. CASE IsOpen(phone, "dir", req.h)
    <3>1. "name" \in DOMAIN s.answer.f
      BY <1>1, <1>4, <2>1, <2>4, EntryServed
    <3>2. Got(s.answer, "name") = NameAt(phone, req)
      BY <1>1, <1>4, <2>1, <2>4, EntryServed
    <3>3. NameAt(phone, req) \in Letters \cup {""}
      BY NamesAre DEF NameAt
    <3> QED
      BY <1>1, <2>2, <3>1, <3>2, <3>3 DEF Naming
  <2> QED
    BY <2>3, <2>4
<1> QED
  BY <1>1, <1>2, <1>3, <1>4 DEF Naming

LEMMA CutNames ==
  ASSUME NEW answer, Naming(answer),
         answer.sub = "ReadDir" => "name" \in DOMAIN answer.f,
         NEW packet \in CutAnswers(answer)
  PROVE  Naming(packet)
<1>1. PICK S : packet = [cmd |-> answer.cmd, sub |-> answer.sub,
                         f |-> [y \in S |-> answer.f[y]]]
  <2>1. answer.cmd = "subsys"
    BY DEF CutAnswers
  <2> QED
    BY <2>1 DEF CutAnswers
<1>2. packet.sub = answer.sub /\ packet.f = [y \in S |-> answer.f[y]]
  BY <1>1
<1>3. Zero("name") = ""
  BY DEF Zero
<1> QED
  BY <1>2, <1>3 DEF Naming, Got

LEMMA ExchangeNames ==
  ASSUME PhoneOK(phone), rx \in Seq(Range(rx)),
         \A i \in 1 .. Len(rx) : Naming(rx[i]),
         NEW req, Req(req), NEW x \in Exchanges(req)
  PROVE  /\ Naming(x.heard)
         /\ \A i \in 1 .. Len(x.rest) : Naming(x.rest[i])
<1>1. PICK S : S = Range(rx) \cup Sent(req)
  OBVIOUS
<1>2. \A packet \in Range(rx) : Naming(packet)
  <2>1. DOMAIN rx = 1 .. Len(rx)
    OBVIOUS
  <2> QED
    BY <2>1 DEF Range
<1>3. \A packet \in {LogPacket, BadCommand, Remainder, Silence} : Naming(packet)
  BY OddPackets DEF Naming
<1>4. \A packet \in Sent(req) : Naming(packet)
  BY <1>3, AnswerNames, CutNames DEF Sent
<1>5. x.heard \in S /\ x.rest \in Seq(S)
  BY <1>1, ExchangePackets
<1>6. \A packet \in S : Naming(packet)
  BY <1>1, <1>2, <1>4
<1>7. \A i \in 1 .. Len(x.rest) : x.rest[i] \in S
  BY <1>5
<1> QED
  BY <1>5, <1>6, <1>7

----------------------------------------------------------------------------
(* The steps of readDir.                                                    *)

KeepsFields(fields, c) == \A y \in fields : call'[y] = c[y]

(* It ends by an exception, or with the program. *)
Thrown == last'.ret \in {"throws", "dies"} /\ call'.op = "none"

LEMMA ThrownIs ==
  ASSUME NEW c, NEW r, ListFails(c) \/ ListingFailing(r) \/ Dies("readDir")
  PROVE  Thrown
BY DEF ListFails, ListingFailing, Dies, Ends, Ended, NotRunning, Thrown

LEMMA ListingStarts ==
  ASSUME NEW path, NEW recursive
  PROVE  LET c == Listing(path, recursive)
         IN  /\ DOMAIN c = ListingFields
             /\ c.op = "readDir" /\ c.at = "open" /\ c.top = path /\ c.path = path
             /\ c.todo = <<>> /\ c.recursive = recursive /\ c.found = {}
             /\ ~ c.refused /\ c.below = <<>>
<1> DEFINE c == Listing(path, recursive)
<1>1. ~ c.refused
  BY DEF Listing
<1>2. DOMAIN c = ListingFields
  BY DEF Listing, ListingFields
<1>3. c.recursive = recursive
  BY DEF Listing
<1>4. /\ c.op = "readDir" /\ c.at = "open" /\ c.top = path /\ c.path = path
      /\ c.todo = <<>> /\ c.found = {} /\ c.below = <<>>
  BY DEF Listing
<1> QED
  BY <1>1, <1>2, <1>3, <1>4

LEMMA ListingCounts ==
  ASSUME NEW path, NEW recursive
  PROVE  Listing(path, recursive).n = 1 /\ Listing(path, recursive).name = ""
BY DEF Listing

(* It opens a directory, the first or a further one. *)
LEMMA ListingOpened ==
  ASSUME NEW c, DOMAIN c = ListingFields, ListingOpens(c)
  PROVE  \E req : \E r \in Exchanges(req) :
           /\ EfsReq(req) /\ req.sub = "OpenDir" /\ req.path = c.path
           /\ Takes(r)
           /\ \/ Thrown
              \/ /\ Heard(req, r)
                 /\ last'.ret = "running"
                 /\ DOMAIN call' = ListingFields
                 /\ call'.at = "read"
                 /\ call'.x[3] = c.path
                 /\ call'.refused = (c.refused \/ Refuses(r))
                 /\ KeepsFields(ListingFields \ {"at", "x", "refused"}, c)
<1> DEFINE req == PathRequest("OpenDir", c.path)
<1>1. PICK r \in Exchanges(req) :
        /\ Takes(r)
        /\ \/ Dies("readDir")
           \/ ListFails(c)
           \/ /\ r.heard # Silence
              /\ ~ SendThrows(req, r.heard)
              /\ ~ ErrorIn(r.heard)
              /\ Ended("readDir", "running", "none", "none")
              /\ call' = [c EXCEPT !.at = "read",
                            !.x = <<"dir", Got(r.heard, "dp"), c.path>>,
                            !.refused = @ \/ Refuses(r)]
  BY DEF ListingOpens, SendCommand
<1>2. EfsReq(req) /\ req.sub = "OpenDir" /\ req.path = c.path
  BY AnswerTable, PathRequestIs
<1> HIDE DEF req
<1>3. CASE Dies("readDir") \/ ListFails(c)
  BY <1>1, <1>2, <1>3, ThrownIs
<1>4. CASE /\ r.heard # Silence
           /\ ~ SendThrows(req, r.heard)
           /\ ~ ErrorIn(r.heard)
           /\ Ended("readDir", "running", "none", "none")
           /\ call' = [c EXCEPT !.at = "read",
                         !.x = <<"dir", Got(r.heard, "dp"), c.path>>,
                         !.refused = @ \/ Refuses(r)]
  <2>1. Heard(req, r) /\ last'.ret = "running"
    BY <1>4 DEF Heard, Ended
  <2>2. PICK x : x = <<"dir", Got(r.heard, "dp"), c.path>>
    OBVIOUS
  <2>3. x[3] = c.path
    BY <2>2
  <2>4. call' = [c EXCEPT !.at = "read", !.x = x, !.refused = @ \/ Refuses(r)]
    BY <1>4, <2>2
  <2>5. /\ DOMAIN call' = ListingFields
        /\ call'.at = "read" /\ call'.x = x
        /\ call'.refused = (c.refused \/ Refuses(r))
        /\ KeepsFields(ListingFields \ {"at", "x", "refused"}, c)
    BY <2>4 DEF ListingFields, KeepsFields
  <2> QED
    BY <1>1, <1>2, <2>1, <2>3, <2>5
<1> QED
  BY <1>1, <1>3, <1>4

(* It asks for an entry: the name it then has is that of the answer, or one *)
(* it had, where the answer was cut.                                        *)
EntryRequest == InLargeBuffer(HandleRequest("ReadDir", call.x[2])) ++ [sequence |-> call.n]
NameHeard(packet) == IF "name" \in DOMAIN packet.f THEN packet.f.name ELSE call.name
TypeHeard(packet) ==
  IF "entryType" \in DOMAIN packet.f THEN packet.f.entryType ELSE call.type
SubPath(name) == call.path \o <<name, "/">>

EntryTaken(r) ==
  /\ last'.ret = "running"
  /\ DOMAIN call' = ListingFields
  /\ call'.refused = (call.refused \/ Refuses(r))
  /\ call'.name = NameHeard(r.heard)
  /\ KeepsFields({"op", "top", "path", "todo", "recursive", "x"}, call)
  /\ \/ /\ call'.name = "" /\ call'.at = "close"
        /\ KeepsFields({"n", "found", "below"}, call)
     \/ /\ call'.name # "" /\ call'.at = "read"
        /\ call'.n = call.n + 1
        /\ call'.found = call.found \cup {<<call.path, call'.name, TypeHeard(r.heard)>>}
        /\ call'.below = IF TypeHeard(r.heard) # TypeCode.dir THEN call.below
                         ELSE Append(call.below, SubPath(call'.name))

LEMMA EntryRequestIs ==
  /\ EfsReq(EntryRequest) /\ EntryRequest.sub = "ReadDir"
  /\ EntryRequest.h = call.x[2] /\ EntryRequest.sequence = call.n
<1> DEFINE p == HandleRequest("ReadDir", call.x[2])
           q == [p EXCEPT !.room = MaxPacket]
           f == [sequence |-> call.n]
<1>1. /\ EfsReq(p) /\ p.sub = "ReadDir" /\ p.h = call.x[2]
      /\ DOMAIN p = {"cmd", "sub", "room", "h"}
  BY AnswerTable, HandleRequestIs
<1> HIDE DEF p
<1>2. /\ EfsReq(q) /\ q.sub = "ReadDir" /\ q.h = call.x[2]
      /\ DOMAIN q = {"cmd", "sub", "room", "h"}
  BY <1>1 DEF EfsReq
<1>3. DOMAIN f = {"sequence"} /\ f["sequence"] = call.n
  OBVIOUS
<1> DEFINE r == q ++ f
<1>4. EntryRequest = r
  BY DEF EntryRequest, InLargeBuffer, p
<1> HIDE DEF q, f
<1>5. /\ r["cmd"] = q["cmd"] /\ r["sub"] = q["sub"] /\ r["h"] = q["h"]
      /\ r["sequence"] = f["sequence"]
  BY <1>2, <1>3, FieldsAre
<1> HIDE DEF r
<1> QED
  BY <1>2, <1>3, <1>4, <1>5 DEF EfsReq

LEMMA ListingReads ==
  ASSUME CallOK, LastOK, Running, DOMAIN call = ListingFields,
         ReadDir_Read
  PROVE  \E r \in Exchanges(EntryRequest) :
           /\ Takes(r)
           /\ \/ Thrown
              \/ /\ last'.ret = "running"
                 /\ DOMAIN call' = ListingFields
                 /\ call'.at = "abort"
                 /\ KeepsFields(ListingFields \ {"at", "refused"}, call)
              \/ /\ r.heard # Silence
                 /\ ~ SendThrows(EntryRequest, r.heard)
                 /\ EntryTaken(r)
<1> DEFINE Next_(r) == [call EXCEPT !.name = NameHeard(r.heard), !.type = TypeHeard(r.heard),
                                    !.refused = @ \/ Refuses(r)]
           Last_(r) == [Next_(r) EXCEPT !.at = "close"]
           More_(r) == [Next_(r) EXCEPT !.n = @ + 1,
                          !.found = @ \cup {<<call.path, NameHeard(r.heard), TypeHeard(r.heard)>>},
                          !.below = IF TypeHeard(r.heard) # TypeCode.dir THEN @
                                    ELSE Append(@, SubPath(NameHeard(r.heard)))]
<1>0. /\ call.op = "readDir" /\ call.at = "read" /\ last.ret = "running"
      /\ call = [y \in ListingFields |-> call[y]]
  BY DEF ReadDir_Read, LastOK, CallOK
<1>1. PICK r \in Exchanges(EntryRequest) :
        /\ Takes(r)
        /\ \/ Dies("readDir")
           \/ Abandons(r)
           \/ /\ r.heard # Silence
              /\ ~ SendThrows(EntryRequest, r.heard)
              /\ Goes(IF NameHeard(r.heard) = "" THEN Last_(r) ELSE More_(r))
  BY DEF ReadDir_Read, SendCommand, EntryRequest, NameHeard, TypeHeard, SubPath
<1>2. CASE Dies("readDir")
  BY <1>1, <1>2, ThrownIs
<1>3. CASE Abandons(r)
  <2>1. call' = [call EXCEPT !.at = "abort", !.refused = @ \/ Refuses(r)] /\ last' = last
    BY <1>3 DEF Abandons, Goes
  <2>2. /\ DOMAIN call' = ListingFields /\ call'.at = "abort"
        /\ KeepsFields(ListingFields \ {"at", "refused"}, call)
    BY <1>0, <2>1 DEF ListingFields, KeepsFields
  <2> QED
    BY <1>0, <1>1, <2>1, <2>2
<1>4. CASE /\ r.heard # Silence
           /\ ~ SendThrows(EntryRequest, r.heard)
           /\ Goes(IF NameHeard(r.heard) = "" THEN Last_(r) ELSE More_(r))
  <2> SUFFICES EntryTaken(r)
    BY <1>1, <1>4
  <2>1. PICK name : name = NameHeard(r.heard)
    OBVIOUS
  <2>2. PICK type : type = TypeHeard(r.heard)
    OBVIOUS
  <2>3. PICK refused : refused = (call.refused \/ Refuses(r))
    OBVIOUS
  <2>4. PICK sub : sub = SubPath(name)
    OBVIOUS
  <2> DEFINE n == [call EXCEPT !.name = name, !.type = type, !.refused = refused]
             close == [n EXCEPT !.at = "close"]
             found == call.found \cup {<<call.path, name, type>>}
             below == IF type # TypeCode.dir THEN call.below ELSE Append(call.below, sub)
             more == [n EXCEPT !.n = call.n + 1, !.found = found, !.below = below]
  <2>5. /\ DOMAIN n = ListingFields
        /\ n.name = name /\ n.refused = refused
        /\ \A y \in ListingFields \ {"name", "type", "refused"} : n[y] = call[y]
    BY <1>0 DEF ListingFields
  <2>6. Next_(r) = n
    BY <1>0, <2>1, <2>2, <2>3 DEF ListingFields
  <2>7. CASE name = ""
    <3>1. call' = close /\ last' = last
      BY <1>4, <2>1, <2>6, <2>7 DEF Goes
    <3> HIDE DEF n
    <3>2. DOMAIN call' = ListingFields /\ call'.at = "close"
          /\ \A y \in ListingFields \ {"at"} : call'[y] = n[y]
      BY <2>5, <3>1 DEF ListingFields
    <3>3. /\ call'.name = name /\ call'.refused = refused
          /\ KeepsFields({"op", "top", "path", "todo", "recursive", "x", "n", "found",
                          "below"}, call)
      BY <2>5, <3>2 DEF ListingFields, KeepsFields
    <3> QED
      <4>1. call'.refused = (call.refused \/ Refuses(r))
        BY <2>3, <3>3, Zenon
      <4>2. call'.name = NameHeard(r.heard) /\ call'.name = "" /\ last'.ret = "running"
        BY <1>0, <2>1, <2>7, <3>1, <3>3
      <4>3. /\ KeepsFields({"op", "top", "path", "todo", "recursive", "x"}, call)
            /\ KeepsFields({"n", "found", "below"}, call)
        BY <3>3 DEF KeepsFields
      <4> QED
        BY <3>2, <4>1, <4>2, <4>3, Zenon DEF EntryTaken
  <2>8. CASE name # ""
    <3>0. n.n = call.n /\ n.found = call.found /\ n.below = call.below
      BY <2>5 DEF ListingFields
    <3>1. call' = More_(r) /\ last' = last
      BY <1>4, <2>1, <2>8 DEF Goes
    <3>2. call' = [n EXCEPT !.n = @ + 1, !.found = @ \cup {<<call.path, name, type>>},
                            !.below = IF type # TypeCode.dir THEN @ ELSE Append(@, sub)]
      <4>1. PICK m : m = Next_(r)
        OBVIOUS
      <4>2. call' = [m EXCEPT !.n = @ + 1, !.found = @ \cup {<<call.path, name, type>>},
                              !.below = IF type # TypeCode.dir THEN @ ELSE Append(@, sub)]
        <5> HIDE DEF Next_
        <5> QED
          BY <2>1, <2>2, <2>4, <3>1, <4>1
      <4>3. m = n
        BY <2>6, <4>1
      <4> HIDE DEF n, Next_
      <4> QED
        BY <4>2, <4>3
    <3> HIDE DEF n
    <3>3. call' = more
      BY <3>0, <3>2
    <3> HIDE DEF found, below
    <3>4. /\ DOMAIN call' = ListingFields /\ call'.n = call.n + 1
          /\ call'.found = found /\ call'.below = below
          /\ \A y \in ListingFields \ {"n", "found", "below"} : call'[y] = n[y]
      BY <2>5, <3>3 DEF ListingFields
    <3>5. /\ call'.name = name /\ call'.refused = refused /\ call'.at = call.at
          /\ KeepsFields({"op", "top", "path", "todo", "recursive", "x"}, call)
      BY <2>5, <3>4 DEF ListingFields, KeepsFields
    <3> QED
      <4>1. call'.refused = (call.refused \/ Refuses(r))
        BY <2>3, <3>5, Zenon
      <4>2. /\ call'.name = NameHeard(r.heard) /\ call'.name # "" /\ last'.ret = "running"
            /\ call'.at = "read"
        BY <1>0, <2>1, <2>8, <3>1, <3>5
      <4>3. call'.found = call.found \cup {<<call.path, call'.name, TypeHeard(r.heard)>>}
        BY <2>2, <3>4, <3>5 DEF found
      <4>4. call'.below = IF TypeHeard(r.heard) # TypeCode.dir THEN call.below
                         ELSE Append(call.below, SubPath(call'.name))
        BY <2>2, <2>4, <3>4, <3>5 DEF below
      <4> QED
        BY <3>4, <3>5, <4>1, <4>2, <4>3, <4>4, Zenon DEF EntryTaken
  <2> QED
    BY <2>7, <2>8
<1> QED
  BY <1>1, <1>2, <1>3, <1>4

LEMMA ListingAborts ==
  ASSUME ReadDir_Abort
  PROVE  Thrown
BY ThrownIs DEF ReadDir_Abort, SendCommand

ToList == (IF call.recursive THEN call.below ELSE <<>>) \o call.todo

LEMMA ListingCloses ==
  ASSUME CallOK, LastOK, Running, DOMAIN call = ListingFields,
         ReadDir_Close
  PROVE  \E req : \E r \in Exchanges(req) :
           /\ req = HandleRequest("CloseDir", call.x[2])
           /\ Takes(r)
           /\ \/ Thrown
              \/ /\ Heard(req, r)
                 /\ ToList # <<>>
                 /\ last'.ret = "running"
                 /\ DOMAIN call' = ListingFields
                 /\ call'.at = "open" /\ call'.path = Head(ToList)
                 /\ call'.todo = Tail(ToList)
                 /\ call'.n = 1 /\ call'.name = "" /\ call'.below = <<>>
                 /\ KeepsFields({"op", "top", "recursive", "found", "refused"}, call)
              \/ /\ Heard(req, r)
                 /\ ToList = <<>>
                 /\ call'.op = "none"
                 /\ last'.op = "readDir" /\ last'.ret = "ok" /\ last'.arg = call.top
                 /\ last'.value.refused = (call.refused \/ Refuses(r))
                 /\ last'.value.found = call.found
                 /\ last'.value.recursive = call.recursive
<1> DEFINE req == HandleRequest("CloseDir", call.x[2])
           Value(r) == [dir |-> HandleOf(call.x), refused |-> call.refused \/ Refuses(r),
                        found |-> call.found, recursive |-> call.recursive]
<1>0. /\ call.op = "readDir" /\ last.ret = "running"
      /\ call = [y \in ListingFields |-> call[y]]
  BY DEF ReadDir_Close, LastOK, CallOK
<1>1. PICK r \in Exchanges(req) :
        /\ Takes(r)
        /\ \/ Dies("readDir")
           \/ ListingFailing(r)
           \/ /\ r.heard # Silence
              /\ ~ SendThrows(req, r.heard)
              /\ ~ ErrorIn(r.heard)
              /\ IF ToList # <<>> THEN Goes(ListingNext(call, ToList))
                 ELSE Ends("readDir", "ok", call.top, Value(r))
  BY DEF ReadDir_Close, SendCommand, ToList
<1> HIDE DEF req
<1>2. CASE Dies("readDir") \/ ListingFailing(r)
  BY <1>1, <1>2, ThrownIs DEF req
<1>3. CASE /\ r.heard # Silence
           /\ ~ SendThrows(req, r.heard)
           /\ ~ ErrorIn(r.heard)
           /\ IF ToList # <<>> THEN Goes(ListingNext(call, ToList))
              ELSE Ends("readDir", "ok", call.top, Value(r))
  <2>1. Heard(req, r)
    BY <1>3 DEF Heard
  <2>2. PICK todo : todo = ToList
    OBVIOUS
  <2>3. CASE todo # <<>>
    <3>1. call' = ListingNext(call, todo) /\ last' = last
      BY <1>3, <2>2, <2>3 DEF Goes
    <3>2. /\ DOMAIN call' = ListingFields
          /\ call'.at = "open" /\ call'.path = Head(todo) /\ call'.todo = Tail(todo)
          /\ call'.n = 1 /\ call'.name = "" /\ call'.below = <<>>
          /\ KeepsFields({"op", "top", "recursive", "found", "refused"}, call)
      BY <1>0, <3>1 DEF ListingNext, ListingFields, KeepsFields
    <3> QED
      BY <1>0, <1>1, <2>1, <2>2, <2>3, <3>1, <3>2 DEF req
  <2>4. CASE todo = <<>>
    <3>1. Ends("readDir", "ok", call.top, Value(r))
      BY <1>3, <2>2, <2>4
    <3>2. /\ call'.op = "none"
          /\ last'.op = "readDir" /\ last'.ret = "ok" /\ last'.arg = call.top
          /\ last'.value = Value(r)
      BY <3>1 DEF Ends, Ended, NotRunning, Remembered
    <3>3. /\ Value(r).refused = (call.refused \/ Refuses(r))
          /\ Value(r).found = call.found
          /\ Value(r).recursive = call.recursive
      OBVIOUS
    <3> HIDE DEF Value
    <3> QED
      BY <1>1, <2>1, <2>2, <2>4, <3>2, <3>3 DEF req
  <2> QED
    BY <2>3, <2>4
<1> QED
  BY <1>1, <1>2, <1>3

----------------------------------------------------------------------------
(* Every step keeps the tree one, and the names on the line those of files. *)

NamesComing == \A i \in 1 .. Len(rx) : Naming(rx[i])

LEMMA RequestKeepsNames ==
  ASSUME Core, FilesOK(phone), TreeOK(phone.tree), NamesComing,
         NEW req, Req(req), Sound(req), NEW x \in Exchanges(req), Takes(x)
  PROVE  TreeOK(phone'.tree) /\ NamesComing'
<1>1. /\ PhoneOK(phone) /\ rx \in Seq(Range(rx))
      /\ phone' = x.phone /\ rx' = x.rest
  BY DEF Core, QueueOK, Takes
<1>2. TreeOK(phone'.tree)
  BY <1>1, ExchangePhone, ServesTree
<1>3. \A i \in 1 .. Len(x.rest) : Naming(x.rest[i])
  BY <1>1, ExchangeNames DEF NamesComing
<1> QED
  BY <1>1, <1>2, <1>3 DEF NamesComing

LEMMA EmptyLineKeepsNames ==
  ASSUME NamesComing, rx' \in {rx, <<>>}
  PROVE  NamesComing'
<1>1. CASE rx' = rx
  BY <1>1 DEF NamesComing
<1>2. CASE rx' = <<>>
  <2>1. Len(rx') = 0
    BY <1>2
  <2> QED
    BY <2>1 DEF NamesComing
<1> QED
  BY <1>1, <1>2

LEMMA ShapedKeepsNames ==
  ASSUME Core, FilesOK(phone), PutLocals, TreeOK(phone.tree), NamesComing, Shaped
  PROVE  TreeOK(phone'.tree) /\ NamesComing'
<1>1. CASE \E req : Req(req) /\ Sound(req) /\ \E x \in Exchanges(req) : Takes(x)
  BY <1>1, RequestKeepsNames
<1>2. CASE UNCHANGED lineVars
  BY <1>2, EmptyLineKeepsNames DEF lineVars
<1>3. CASE PortReopens
  BY <1>3, EmptyLineKeepsNames DEF PortReopens
<1>4. CASE PhoneStarts
  <2>1. TreeOK(phone'.tree)
    BY <1>4 DEF PhoneStarts, Booted, PhoneOK, Core
  <2> QED
    BY <1>4, <2>1, EmptyLineKeepsNames DEF PhoneStarts
<1>5. CASE \E req : Keeping(req)
  BY <1>1, <1>5 DEF Keeping, PlainReq, Req
<1>6. CASE \E req : Asking(req)
  BY <1>1, <1>6 DEF Asking, Req, QcdmReq, Sound
<1>7. CASE \E req : Taking(req)
  BY <1>1, <1>7 DEF Taking, Req
<1>8. CASE \E req, y : Giving(req, y)
  BY <1>1, <1>8 DEF Giving, Req, Sound, Closing
<1> QED
  BY <1>2, <1>3, <1>4, <1>5, <1>6, <1>7, <1>8 DEF Shaped, Quiet, Leaving, Booting

----------------------------------------------------------------------------
(* The directory of the shell.                                              *)

LEMMA UpIsRoot ==
  ASSUME NEW path, ShellPath(path)
  PROVE  Up(path) = Root
<1>1. DOMAIN path = 1 .. Len(path) /\ Len(path) \in Nat /\ Len(path) >= 1
  BY DEF ShellPath
<1>2. path[1] = "/" /\ \A i \in DOMAIN path : i # 1 => path[i] # "/"
  BY <1>1 DEF ShellPath
<1> DEFINE P(i) == path[i] = "/" /\ \A j \in i + 1 .. Len(path) : path[j] # "/"
           first == CHOOSE i \in DOMAIN path : P(i)
<1>3. P(1) /\ 1 \in DOMAIN path
  BY <1>1, <1>2
<1>4. \A i \in DOMAIN path : P(i) => i = 1
  BY <1>2
<1>5. first = 1
  <2> HIDE DEF P
  <2> QED
    BY <1>3, <1>4
<1> QED
  BY <1>5 DEF Up

LEMMA RootIsShells == ShellPath(Root)
<1>1. PICK S : S = Characters
  OBVIOUS
<1>2. "/" \in S
  BY <1>1 DEF Characters
<1>3. Root = <<"/">> /\ Root \in Seq(S) /\ Root # <<>> /\ DOMAIN Root = {1} /\ Root[1] = "/"
  BY <1>2 DEF Root
<1> QED
  BY <1>1, <1>3 DEF ShellPath

LEMMA ShellGoesDown ==
  ASSUME NEW path, ShellPath(path), NEW name \in Letters
  PROVE  ShellPath(Append(path, name))
<1>1. PICK S : S = Characters
  OBVIOUS
<1>2. path \in Seq(S) /\ name \in S /\ name # "/"
  BY <1>1, TreeAssumption DEF ShellPath, Characters
<1>3. PICK a : a = Append(path, name)
  OBVIOUS
<1>4. /\ a \in Seq(S) /\ a # <<>> /\ DOMAIN a = 1 .. Len(path) + 1
      /\ a[Len(path) + 1] = name
      /\ \A i \in 1 .. Len(path) : a[i] = path[i]
  BY <1>2, <1>3
<1>5. Len(path) \in Nat /\ Len(path) >= 1 /\ DOMAIN path = 1 .. Len(path)
  BY <1>2 DEF ShellPath
<1>6. ASSUME NEW i \in DOMAIN a
      PROVE  (a[i] = "/") = (i = 1)
  <2>1. CASE i = Len(path) + 1
    BY <1>2, <1>4, <1>5, <2>1
  <2>2. CASE i \in 1 .. Len(path)
    BY <1>4, <1>5, <2>2 DEF ShellPath
  <2> QED
    BY <1>4, <1>5, <1>6, <2>1, <2>2
<1> QED
  BY <1>1, <1>3, <1>4, <1>6 DEF ShellPath

(* An exception ends the shell. *)
ShellSafe == Shelling /\ last.op = "readDir" => last.ret \in {"ok", "running"}

LEMMA ShellKeepsPath ==
  ASSUME LastOK, NamesKept, Next
  PROVE  /\ Shelling' => ShellPath(cPath')
         /\ last'.ret \in {"throws", "dies"} => ~ Shelling'
<1>0. /\ Shelling => ShellPath(cPath)
      /\ ShellSafe
      /\ last.op = "readDir" /\ last.ret = "ok" => NamesOf(last.value.found) \subseteq Letters
  BY DEF NamesKept, ShellSafe
<1>1. CASE Program
  BY <1>1 DEF Program, Shelling
<1>2. CASE ShellGoesOn
  BY <1>0, <1>2 DEF ShellGoesOn, Shelling
<1>3. CASE ProgramOver
  BY <1>3 DEF ProgramOver, Shelling
<1>4. CASE Shell_Starts
  BY <1>4, RootIsShells DEF Shell_Starts, Ended
<1>5. CASE Shell_Cd
  <2>1. /\ Shelling /\ ~ Running /\ last.op = "readDir" /\ last'.ret = "ok"
        /\ \/ cPath' = Up(cPath)
           \/ \E e \in Contents : cPath' = Append(cPath, e[2])
    BY <1>5 DEF Shell_Cd, Turn, Ended
  <2>2. last.ret = "ok"
    BY <1>0, <2>1 DEF ShellSafe, LastOK
  <2>3. \A e \in Contents : e[2] \in Letters
    BY <1>0, <2>1, <2>2 DEF Contents, NamesOf
  <2>4. CASE cPath' = Up(cPath)
    BY <1>0, <2>1, <2>4, UpIsRoot, RootIsShells
  <2>5. CASE \E e \in Contents : cPath' = Append(cPath, e[2])
    BY <1>0, <2>1, <2>3, <2>5, ShellGoesDown
  <2> QED
    BY <2>1, <2>4, <2>5
<1> QED
  BY <1>1, <1>2, <1>3, <1>4, <1>5
     DEF Next, CallQcdm, CallEfs, CallHalf, CallHandles, Continue, Shell, Shell_Hello,
         Shell_Query, Shell_Lists, Shell_Del, Shell_Get, Get_Fstat, Get_Read, Get_Close,
         Shell_Put, Put_Write, Put_Close, ProgramEnds, PhoneBoots

----------------------------------------------------------------------------
(* The directories still to be listed.                                      *)

LEMMA RangesAre ==
  ASSUME NEW S, NEW q \in Seq(S)
  PROVE  /\ Range(q) \subseteq S
         /\ q \in Seq(Range(q))
         /\ \A p : Range(Append(q, p)) = Range(q) \cup {p}
         /\ \A r \in Seq(S) : Range(q \o r) = Range(q) \cup Range(r)
         /\ q # <<>> => Range(q) = {Head(q)} \cup Range(Tail(q))
<1>1. DOMAIN q = 1 .. Len(q) /\ Len(q) \in Nat /\ \A i \in 1 .. Len(q) : q[i] \in S
  OBVIOUS
<1>2. Range(q) \subseteq S
  BY <1>1 DEF Range
<1>3. q \in Seq(Range(q))
  BY TypedByRange
<1>4. ASSUME NEW p
      PROVE  Range(Append(q, p)) = Range(q) \cup {p}
  <2>1. PICK a : a = Append(q, p)
    OBVIOUS
  <2>2. /\ DOMAIN a = 1 .. Len(q) + 1 /\ a[Len(q) + 1] = p
        /\ \A i \in 1 .. Len(q) : a[i] = q[i]
    BY <2>1, <1>1
  <2> QED
    BY <1>1, <2>1, <2>2 DEF Range
<1>5. ASSUME NEW r \in Seq(S)
      PROVE  Range(q \o r) = Range(q) \cup Range(r)
  <2>1. PICK a : a = q \o r
    OBVIOUS
  <2>2. DOMAIN r = 1 .. Len(r) /\ Len(r) \in Nat
    OBVIOUS
  <2>3. /\ DOMAIN a = 1 .. Len(q) + Len(r)
        /\ \A i \in 1 .. Len(q) : a[i] = q[i]
        /\ \A i \in 1 .. Len(r) : a[Len(q) + i] = r[i]
    BY <2>1, <1>1, <2>2
  <2>4. \A i \in 1 .. Len(q) + Len(r) :
          i \in 1 .. Len(q) \/ (i - Len(q) \in 1 .. Len(r) /\ Len(q) + (i - Len(q)) = i)
    BY <1>1, <2>2
  <2>5. \A i \in 1 .. Len(q) : i \in 1 .. Len(q) + Len(r)
    BY <1>1, <2>2
  <2>6. \A i \in 1 .. Len(r) : Len(q) + i \in 1 .. Len(q) + Len(r)
    BY <1>1, <2>2
  <2>7. Range(a) \subseteq Range(q) \cup Range(r)
    <3> SUFFICES ASSUME NEW i \in 1 .. Len(q) + Len(r)
                 PROVE  a[i] \in Range(q) \cup Range(r)
      BY <2>3 DEF Range
    <3>1. CASE i \in 1 .. Len(q)
      BY <1>1, <2>3, <3>1 DEF Range
    <3>2. CASE i - Len(q) \in 1 .. Len(r) /\ Len(q) + (i - Len(q)) = i
      <4>1. a[i] = r[i - Len(q)]
        BY <2>3, <3>2
      <4> QED
        BY <2>2, <3>2, <4>1 DEF Range
    <3> QED
      BY <2>4, <3>1, <3>2
  <2>8. Range(q) \subseteq Range(a)
    BY <1>1, <2>3, <2>5 DEF Range
  <2>9. Range(r) \subseteq Range(a)
    BY <2>2, <2>3, <2>6 DEF Range
  <2> QED
    BY <2>1, <2>7, <2>8, <2>9
<1>6. ASSUME q # <<>>
      PROVE  Range(q) = {Head(q)} \cup Range(Tail(q))
  <2>1. PICK t : t = Tail(q)
    OBVIOUS
  <2>2. /\ Len(q) >= 1 /\ DOMAIN t = 1 .. Len(q) - 1
        /\ \A i \in 1 .. Len(q) - 1 : t[i] = q[i + 1]
        /\ Head(q) = q[1]
    BY <1>6, <2>1, <1>1
  <2>3. \A i \in 1 .. Len(q) : i = 1 \/ (i - 1 \in 1 .. Len(q) - 1 /\ (i - 1) + 1 = i)
    BY <1>1, <2>2
  <2>4. \A i \in 1 .. Len(q) - 1 : i + 1 \in 1 .. Len(q)
    BY <1>1, <2>2
  <2>5. Range(q) \subseteq {Head(q)} \cup Range(t)
    <3> SUFFICES ASSUME NEW i \in 1 .. Len(q)
                 PROVE  q[i] \in {Head(q)} \cup Range(t)
      BY <1>1 DEF Range
    <3>1. CASE i = 1
      BY <2>2, <3>1
    <3>2. CASE i - 1 \in 1 .. Len(q) - 1 /\ (i - 1) + 1 = i
      <4>1. q[i] = t[i - 1]
        BY <2>2, <3>2
      <4> QED
        BY <2>2, <3>2, <4>1 DEF Range
    <3> QED
      BY <2>3, <3>1, <3>2
  <2>6. {Head(q)} \cup Range(t) \subseteq Range(q)
    <3>1. 1 \in DOMAIN q
      BY <1>1, <2>2
    <3> QED
      BY <1>1, <2>2, <2>4, <3>1 DEF Range
  <2> QED
    BY <2>1, <2>5, <2>6
<1> QED
  BY <1>2, <1>3, <1>4, <1>5, <1>6

Dirs(q) == q \in Seq(Range(q)) /\ \A path \in Range(q) : Listable(path)

LEMMA NoDirs == Dirs(<<>>) /\ Range(<<>>) = {}
<1>1. Range(<<>>) = {}
  BY DEF Range
<1> QED
  BY <1>1 DEF Dirs

LEMMA DirsAppend ==
  ASSUME NEW q, Dirs(q), NEW p, Listable(p)
  PROVE  Dirs(Append(q, p)) /\ Range(Append(q, p)) = Range(q) \cup {p}
<1>1. PICK S : S = Range(q)
  OBVIOUS
<1>2. q \in Seq(S) /\ \A path \in S : Listable(path)
  BY <1>1 DEF Dirs
<1>3. Range(Append(q, p)) = S \cup {p}
  BY <1>1, <1>2, RangesAre
<1>4. PICK a : a = Append(q, p)
  OBVIOUS
<1>5. PICK T : T = S \cup {p}
  OBVIOUS
<1>6. a \in Seq(T)
  <2>1. q \in Seq(T)
    BY <1>2, <1>5, SeqMonotonic
  <2> QED
    BY <1>4, <1>5, <2>1
<1> QED
  BY <1>1, <1>2, <1>3, <1>4, <1>5, <1>6 DEF Dirs

LEMMA DirsJoin ==
  ASSUME NEW q, Dirs(q), NEW r, Dirs(r)
  PROVE  Dirs(q \o r) /\ Range(q \o r) = Range(q) \cup Range(r)
<1>1. PICK S : S = Range(q) \cup Range(r)
  OBVIOUS
<1>2. q \in Seq(S) /\ r \in Seq(S) /\ \A path \in S : Listable(path)
  BY <1>1, SeqMonotonic DEF Dirs
<1>3. Range(q \o r) = S
  BY <1>1, <1>2, RangesAre
<1>4. q \o r \in Seq(S)
  BY <1>2
<1> QED
  BY <1>1, <1>2, <1>3, <1>4 DEF Dirs

LEMMA DirsHead ==
  ASSUME NEW q, Dirs(q), q # <<>>
  PROVE  /\ Listable(Head(q)) /\ Dirs(Tail(q))
         /\ Range(q) = {Head(q)} \cup Range(Tail(q))
<1>1. PICK S : S = Range(q)
  OBVIOUS
<1>2. q \in Seq(S) /\ \A path \in S : Listable(path)
  BY <1>1 DEF Dirs
<1>3. Range(q) = {Head(q)} \cup Range(Tail(q))
  BY <1>2, RangesAre
<1>4. Tail(q) \in Seq(S) /\ Head(q) \in S
  BY <1>2
<1>5. Range(Tail(q)) \subseteq S /\ Tail(q) \in Seq(Range(Tail(q)))
  BY <1>4, RangesAre
<1> QED
  BY <1>2, <1>3, <1>4, <1>5 DEF Dirs

LEMMA SubListable ==
  ASSUME NEW path, Listable(path), NEW name \in Letters
  PROVE  LET sub == path \o <<name, "/">> IN
           /\ Listable(sub)
           /\ Len(sub) = Len(path) + 2 /\ Len(path) \in Nat /\ Len(path) > 0
           /\ \A i \in 1 .. Len(path) : sub[i] = path[i]
           /\ sub[Len(path) + 1] = name /\ sub[Len(path) + 2] = "/"
<1>1. PICK S : S = Characters
  OBVIOUS
<1>3. path \in Seq(S) /\ path # <<>> /\ name \in S /\ "/" \in S
  BY <1>1 DEF Listable, Characters
<1>4. PICK e : e = <<name, "/">>
  OBVIOUS
<1>5. e \in Seq(S) /\ Len(e) = 2 /\ e[1] = name /\ e[2] = "/"
  BY <1>3, <1>4
<1>6. PICK a : a = path \o e
  OBVIOUS
<1>7. a \in Seq(S)
  BY <1>3, <1>5, <1>6
<1>8. Len(path) \in Nat /\ Len(path) > 0
  BY <1>3
<1>9. /\ Len(a) = Len(path) + 2
      /\ \A i \in 1 .. Len(path) : a[i] = path[i]
      /\ a[Len(path) + 1] = name /\ a[Len(path) + 2] = "/"
  <2>1. Len(path \o e) = Len(path) + Len(e)
    BY <1>3, <1>5, ConcatProperties, Zenon
  <2>2. \A i \in 1 .. Len(path) + Len(e) :
          (path \o e)[i] = IF i <= Len(path) THEN path[i] ELSE e[i - Len(path)]
    BY <1>3, <1>5, ConcatProperties, Zenon
  <2>3. PICK n : n = Len(path)
    OBVIOUS
  <2>4. PICK m : m = Len(e)
    OBVIOUS
  <2>5. n \in Nat /\ n > 0 /\ m = 2
    BY <1>5, <1>8, <2>3, <2>4
  <2>6. \A i \in 1 .. n + m : a[i] = IF i <= n THEN path[i] ELSE e[i - n]
    BY <1>6, <2>2, <2>3, <2>4
  <2>7. \A i \in 1 .. n : a[i] = path[i]
    BY <2>5, <2>6
  <2>8. a[n + 1] = e[1]
    BY <2>5, <2>6
  <2>9. a[n + 2] = e[2]
    BY <2>5, <2>6
  <2> QED
    BY <1>5, <1>6, <2>1, <2>3, <2>7, <2>8, <2>9
<1>10. Len(a) > 2
  BY <1>8, <1>9
<1>11. Len(<<>>) = 0 /\ Len(<<"/", "/">>) = 2
  OBVIOUS
<1>12. a # <<>> /\ a # <<"/", "/">>
  <2>1. a = <<>> => Len(a) = 0
    BY <1>11, Zenon
  <2>2. a = <<"/", "/">> => Len(a) = 2
    BY <1>11, Zenon
  <2>3. PICK k : k = Len(a)
    OBVIOUS
  <2>4. k # 0 /\ k # 2
    BY <1>8, <1>9, <2>3
  <2> QED
    BY <2>1, <2>2, <2>3, <2>4, Zenon
<1>13. Listable(a)
  BY <1>1, <1>7, <1>12 DEF Listable
<1> QED
  BY <1>4, <1>6, <1>8, <1>9, <1>13

LEMMA SubPathListable ==
  ASSUME Listable(call.path), NEW name \in Letters
  PROVE  Listable(SubPath(name))
BY SubListable DEF SubPath

----------------------------------------------------------------------------
(* What readDir has between two of its requests.                            *)

LEMMA FirstIs == 1 \in Nat \ {0} /\ "" \in Letters \cup {""}
OBVIOUS

LEMMA TypedDirs ==
  ASSUME NEW c, ListingTyped(c)
  PROVE  Dirs(c.todo) /\ Dirs(c.below)
BY DEF ListingTyped, Dirs

LEMMA OpenedTyped ==
  ASSUME NEW c, ListingTyped(c), c.at = "open", ListingOpens(c)
  PROVE  Thrown \/ (last'.ret = "running" /\ ListingTyped(call'))
<1>1. DOMAIN c = ListingFields
  BY DEF ListingTyped
<1>2. \/ Thrown
      \/ /\ last'.ret = "running"
         /\ DOMAIN call' = ListingFields
         /\ call'.at = "read"
         /\ call'.x[3] = c.path
         /\ KeepsFields(ListingFields \ {"at", "x", "refused"}, c)
  BY <1>1, ListingOpened
<1>3. ASSUME last'.ret = "running", DOMAIN call' = ListingFields, call'.at = "read",
             call'.x[3] = c.path, KeepsFields(ListingFields \ {"at", "x", "refused"}, c)
      PROVE  ListingTyped(call')
  <2>1. /\ call'.path = c.path /\ call'.todo = c.todo /\ call'.below = c.below
        /\ call'.n = c.n /\ call'.name = c.name /\ call'.found = c.found
    BY <1>3 DEF KeepsFields, ListingFields
  <2> QED
    BY <1>3, <2>1 DEF ListingTyped
<1> QED
  BY <1>2, <1>3

LEMMA StartTyped ==
  ASSUME NEW path, Listable(path), NEW recursive
  PROVE  ListingTyped(Listing(path, recursive)) /\ Listing(path, recursive).at = "open"
<1> DEFINE c == Listing(path, recursive)
<1>1. c.n = 1 /\ c.name = ""
  BY ListingCounts
<1>2. /\ DOMAIN c = ListingFields
      /\ c.at = "open" /\ c.path = path /\ c.todo = <<>> /\ c.found = {} /\ c.below = <<>>
  BY ListingStarts
<1> HIDE DEF c
<1>3. /\ c.todo \in Seq(Range(c.todo)) /\ c.below \in Seq(Range(c.below))
      /\ \A p \in Range(c.todo) \cup Range(c.below) : Listable(p)
  BY <1>2, NoDirs DEF Dirs
<1>4. NamesOf(c.found) \subseteq Letters
  BY <1>2 DEF NamesOf
<1>5. c.n \in Nat \ {0} /\ c.name \in Letters \cup {""}
  BY <1>1, FirstIs, Zenon
<1>6. ListingTyped(c)
  BY <1>1, <1>2, <1>3, <1>4, <1>5 DEF ListingTyped
<1> QED
  BY <1>2, <1>6 DEF c

LEMMA EntryTyped ==
  ASSUME ListingTyped(call), call.at # "open",
         NEW r, EntryTaken(r), Naming(r.heard), r.heard.sub = "ReadDir"
  PROVE  ListingTyped(call')
<1>1. /\ Listable(call.path) /\ call.n \in Nat \ {0} /\ call.name \in Letters \cup {""}
      /\ NamesOf(call.found) \subseteq Letters /\ Dirs(call.todo) /\ Dirs(call.below)
      /\ call.x[3] = call.path
  BY TypedDirs DEF ListingTyped
<1>2. /\ DOMAIN call' = ListingFields
      /\ call'.name = NameHeard(r.heard)
      /\ call'.path = call.path /\ call'.todo = call.todo /\ call'.x = call.x
  BY DEF EntryTaken, KeepsFields
<1>3. call'.name \in Letters \cup {""}
  BY <1>1, <1>2 DEF NameHeard, Naming, Got
<1>4. CASE call'.name = "" /\ call'.at = "close" /\ KeepsFields({"n", "found", "below"}, call)
  <2>1. call'.n = call.n /\ call'.found = call.found /\ call'.below = call.below
    BY <1>4 DEF KeepsFields
  <2>2. call'.at # "open"
    BY <1>4
  <2> QED
    BY <1>1, <1>2, <1>3, <2>1, <2>2 DEF ListingTyped, Dirs
<1>5. CASE /\ call'.name # "" /\ call'.at = "read"
           /\ call'.n = call.n + 1
           /\ call'.found = call.found \cup {<<call.path, call'.name, TypeHeard(r.heard)>>}
           /\ call'.below = IF TypeHeard(r.heard) # TypeCode.dir THEN call.below
                            ELSE Append(call.below, SubPath(call'.name))
  <2>1. PICK name : name = call'.name
    OBVIOUS
  <2>2. name \in Letters
    BY <1>3, <1>5, <2>1
  <2>3. call'.n \in Nat \ {0}
    <3>1. PICK n : n = call.n
      OBVIOUS
    <3>2. n \in Nat \ {0}
      BY <1>1, <3>1
    <3>3. n + 1 \in Nat \ {0}
      BY <3>2
    <3> QED
      BY <1>5, <3>1, <3>3
  <2>4. PICK e : e = <<call.path, name, TypeHeard(r.heard)>>
    OBVIOUS
  <2>5. e[2] = name
    BY <2>4
  <2>6. NamesOf(call'.found) \subseteq Letters
    BY <1>1, <1>5, <2>1, <2>2, <2>4, <2>5 DEF NamesOf
  <2>7. Dirs(Append(call.below, SubPath(name)))
    BY <1>1, <2>2, SubPathListable, DirsAppend
  <2>8. Dirs(call'.below)
    BY <1>1, <1>5, <2>1, <2>7
  <2>9. call'.at # "open"
    BY <1>5
  <2> QED
    BY <1>1, <1>2, <1>3, <2>3, <2>6, <2>8, <2>9 DEF ListingTyped, Dirs
<1> QED
  BY <1>4, <1>5 DEF EntryTaken

LEMMA ToListDirs ==
  ASSUME ListingTyped(call)
  PROVE  /\ Dirs(ToList)
         /\ Range(ToList) = Range(call.todo) \cup (IF call.recursive THEN Range(call.below) ELSE {})
<1>1. Dirs(call.todo) /\ Dirs(call.below)
  BY TypedDirs
<1>2. CASE call.recursive
  <2>1. ToList = call.below \o call.todo
    BY <1>2 DEF ToList
  <2> QED
    BY <1>1, <1>2, <2>1, DirsJoin
<1>3. CASE ~ call.recursive
  <2>1. ToList = <<>> \o call.todo
    BY <1>3 DEF ToList
  <2> QED
    BY <1>1, <1>3, <2>1, NoDirs, DirsJoin
<1> QED
  BY <1>2, <1>3

LEMMA ClosedTyped ==
  ASSUME ListingTyped(call), ToList # <<>>,
         DOMAIN call' = ListingFields,
         call'.at = "open", call'.path = Head(ToList), call'.todo = Tail(ToList),
         call'.n = 1, call'.name = "", call'.below = <<>>, call'.found = call.found
  PROVE  ListingTyped(call')
<1>1. Listable(call'.path) /\ Dirs(call'.todo) /\ Dirs(call'.below)
  BY ToListDirs, DirsHead, NoDirs
<1>2. NamesOf(call'.found) \subseteq Letters
  BY DEF ListingTyped
<1>3. call'.n \in Nat \ {0} /\ call'.name \in Letters \cup {""}
  BY FirstIs, Zenon
<1> QED
  BY <1>1, <1>2, <1>3 DEF ListingTyped, Dirs

LEMMA AbortTyped ==
  ASSUME ListingTyped(call), call.at = "read", DOMAIN call' = ListingFields, call'.at = "abort",
         KeepsFields(ListingFields \ {"at", "refused"}, call)
  PROVE  ListingTyped(call')
<1>1. /\ call'.path = call.path /\ call'.todo = call.todo /\ call'.below = call.below
      /\ call'.n = call.n /\ call'.name = call.name /\ call'.found = call.found
      /\ call'.x = call.x
  BY DEF KeepsFields, ListingFields
<1> QED
  BY <1>1 DEF ListingTyped

LEMMA WellNamedListable ==
  ASSUME NEW path, WellNamed(path), path # <<>>
  PROVE  Listable(path)
<1>1. PICK S : S = Characters
  OBVIOUS
<1>2. path \in Seq(S) /\ \A i \in DOMAIN path : (path[i] = "/") = (i % 2 = 1)
  BY <1>1 DEF WellNamed, Characters
<1>3. ASSUME path = <<"/", "/">>
      PROVE  FALSE
  <2>1. 2 \in DOMAIN path /\ path[2] = "/"
    BY <1>3
  <2>2. 2 % 2 = 1
    BY <1>2, <2>1
  <2> QED
    BY <2>2
<1> QED
  BY <1>1, <1>2, <1>3 DEF Listable

LEMMA ShellsListable ==
  ASSUME NEW path, ShellPath(path)
  PROVE  Listable(path)
<1>1. ASSUME path = <<"/", "/">>
      PROVE  FALSE
  <2>1. 2 \in DOMAIN path /\ path[2] = "/"
    BY <1>1
  <2> QED
    BY <2>1 DEF ShellPath
<1> QED
  BY <1>1 DEF Listable, ShellPath

LEMMA ListingBegins ==
  ASSUME ReadDir \/ Shell_Lists, Shelling => ShellPath(cPath)
  PROVE  \/ Thrown
         \/ \E path, recursive : /\ Listable(path)
                                 /\ recursive \in BOOLEAN
                                 /\ ListingOpens(Listing(path, recursive))
<1>1. CASE ReadDir
  <2>1. PICK path \in Paths, recursive \in BOOLEAN :
          IF path = <<>>
          THEN ListFails(Listing(path, recursive)) /\ UNCHANGED <<lineVars, held>>
          ELSE ListingOpens(Listing(path, recursive))
    BY <1>1 DEF ReadDir
  <2>2. CASE path = <<>>
    <3>1. PICK c : c = Listing(path, recursive)
      OBVIOUS
    <3>2. ListFails(c)
      BY <2>1, <2>2, <3>1
    <3>3. Thrown
      BY <3>2, ThrownIs
    <3> QED
      BY <3>3
  <2>3. CASE path # <<>>
    BY <2>1, <2>3, WellNamedListable, PathsAssumption
  <2> QED
    BY <2>2, <2>3
<1>2. CASE Shell_Lists
  <2>1. Shelling /\ ListingOpens(Listing(cPath, FALSE))
    BY <1>2 DEF Shell_Lists, Turn
  <2> QED
    BY <2>1, ShellsListable
<1> QED
  BY <1>1, <1>2

LEMMA ReadDirOwn ==
  ASSUME CallOK, LastOK, Core, NamesKept, OwnStep("readDir")
  PROVE  \/ Thrown
         \/ last'.ret = "running" /\ ListingTyped(call')
         \/ /\ call'.op = "none" /\ last'.ret = "ok"
            /\ NamesOf(last'.value.found) \subseteq Letters
<1>0. /\ ReadDirLocals /\ (Shelling => ShellPath(cPath))
      /\ PhoneOK(phone) /\ rx \in Seq(Range(rx)) /\ NamesComing
  BY DEF NamesKept, Core, QueueOK, NamesComing
<1>1. CASE ReadDir \/ Shell_Lists
  <2>1. CASE \E path, recursive : /\ Listable(path)
                                  /\ recursive \in BOOLEAN
                                  /\ ListingOpens(Listing(path, recursive))
    <3>1. PICK path, recursive : Listable(path) /\ ListingOpens(Listing(path, recursive))
      BY <2>1
    <3>2. PICK c : c = Listing(path, recursive)
      OBVIOUS
    <3>3. ListingTyped(c) /\ c.at = "open" /\ ListingOpens(c)
      BY <3>1, <3>2, StartTyped
    <3> QED
      BY <3>3, OpenedTyped
  <2> QED
    BY <1>0, <1>1, <2>1, ListingBegins
<1>2. CASE ReadDir_Open
  <2>1. call.op = "readDir" /\ call.at = "open" /\ ListingOpens(call)
    BY <1>2 DEF ReadDir_Open
  <2> QED
    BY <1>0, <2>1, OpenedTyped DEF ReadDirLocals
<1>3. CASE ReadDir_Read
  <2>1. call.op = "readDir" /\ call.at = "read" /\ Running
    BY <1>3 DEF ReadDir_Read, Running
  <2>2. ListingTyped(call) /\ DOMAIN call = ListingFields
    BY <1>0, <2>1 DEF ReadDirLocals, ListingTyped
  <2>3. PICK r \in Exchanges(EntryRequest) :
          /\ Takes(r)
          /\ \/ Thrown
             \/ /\ last'.ret = "running"
                /\ DOMAIN call' = ListingFields
                /\ call'.at = "abort"
                /\ KeepsFields(ListingFields \ {"at", "refused"}, call)
             \/ /\ r.heard # Silence
                /\ ~ SendThrows(EntryRequest, r.heard)
                /\ EntryTaken(r)
    BY <1>3, <2>1, <2>2, ListingReads
  <2>4. PICK req : req = EntryRequest
    OBVIOUS
  <2>5. Req(req) /\ req.sub = "ReadDir"
    BY <2>4, EntryRequestIs DEF Req
  <2>6. Naming(r.heard)
    BY <1>0, <2>3, <2>4, <2>5, ExchangeNames DEF NamesComing
  <2>7. CASE ~ SendThrows(EntryRequest, r.heard) /\ EntryTaken(r)
    <3>1. r.heard.sub = "ReadDir"
      BY <2>4, <2>5, <2>7 DEF SendThrows
    <3>2. last'.ret = "running"
      BY <2>7 DEF EntryTaken
    <3> QED
      BY <2>1, <2>2, <2>6, <2>7, <3>1, <3>2, EntryTyped
  <2> QED
    BY <2>1, <2>2, <2>3, <2>7, AbortTyped
<1>4. CASE ReadDir_Abort
  BY <1>4, ListingAborts
<1>5. CASE ReadDir_Close
  <2>1. call.op = "readDir" /\ Running
    BY <1>5 DEF ReadDir_Close, Running
  <2>2. ListingTyped(call) /\ DOMAIN call = ListingFields /\ NamesOf(call.found) \subseteq Letters
    BY <1>0, <2>1 DEF ReadDirLocals, ListingTyped
  <2>3. \/ Thrown
        \/ /\ ToList # <<>>
           /\ last'.ret = "running"
           /\ DOMAIN call' = ListingFields
           /\ call'.at = "open" /\ call'.path = Head(ToList)
           /\ call'.todo = Tail(ToList)
           /\ call'.n = 1 /\ call'.name = "" /\ call'.below = <<>>
           /\ KeepsFields({"op", "top", "recursive", "found", "refused"}, call)
        \/ /\ call'.op = "none" /\ last'.ret = "ok"
           /\ last'.value.found = call.found
    BY <1>5, <2>1, <2>2, ListingCloses
  <2>4. CASE KeepsFields({"op", "top", "recursive", "found", "refused"}, call)
    <3>1. call'.found = call.found
      BY <2>4 DEF KeepsFields
    <3> QED
      BY <2>2, <2>3, <3>1, ClosedTyped
  <2> QED
    BY <2>2, <2>3, <2>4
<1> QED
  BY <1>1, <1>2, <1>3, <1>4, <1>5 DEF OwnStep

LEMMA NamesStep ==
  ASSUME OpensComeWhole, IInv, DataOK, NamesKept, [Next]_vars
  PROVE  NamesKept'
<1>0. /\ Core /\ CallOK /\ LastOK /\ FilesOK(phone) /\ PutLocals
      /\ TreeOK(phone.tree) /\ NamesComing
  BY InvariantParts DEF DataOK, NamesKept, NamesComing
<1>1. CASE UNCHANGED vars
  BY <1>1 DEF vars, lineVars, qcdmVars, efsVars, NamesKept, ReadDirLocals, Shelling
<1>2. CASE Next
  <2>1. Shaped
    BY <1>0, <1>2, ProgramSteps, ContinueSteps, ShellSteps, EndingSteps DEF Next
  <2>2. TreeOK(phone'.tree) /\ NamesComing'
    BY <1>0, <2>1, ShapedKeepsNames
  <2>3. /\ Shelling' => ShellPath(cPath')
        /\ last'.ret \in {"throws", "dies"} => ~ Shelling'
    BY <1>0, <1>2, ShellKeepsPath
  <2>4. CASE Elsewhere("readDir")
    <3>1. ReadDirLocals'
      BY <2>4 DEF Elsewhere, ReadDirLocals
    <3> QED
      BY <2>2, <2>3, <2>4, <3>1 DEF Elsewhere, NamesKept, NamesComing
  <2>5. CASE Thrown
    <3>1. ReadDirLocals'
      BY <2>5 DEF Thrown, ReadDirLocals
    <3>2. last'.ret # "ok" /\ ~ Shelling'
      BY <2>3, <2>5 DEF Thrown
    <3> QED
      BY <2>2, <2>3, <3>1, <3>2 DEF NamesKept, NamesComing
  <2>6. CASE last'.ret = "running" /\ ListingTyped(call')
    BY <2>2, <2>3, <2>6 DEF NamesKept, NamesComing, ReadDirLocals
  <2>7. CASE /\ call'.op = "none" /\ last'.ret = "ok"
             /\ NamesOf(last'.value.found) \subseteq Letters
    BY <2>2, <2>3, <2>7 DEF NamesKept, NamesComing, ReadDirLocals
  <2> QED
    BY <1>0, <1>2, <2>4, <2>5, <2>6, <2>7, ReadDirOwn, StepsElsewhere DEF Long
<1> QED
  BY <1>1, <1>2

LEMMA NamesBegin ==
  ASSUME Init
  PROVE  NamesKept
<1>1. /\ phone = NewPhone /\ rx = <<>> /\ call.op = "none" /\ ~ Shelling
      /\ last.op = "none"
  BY DEF Init, LineInit, EfsInit, QcdmInit, NoCall, NotRunning, Shelling
<1>2. TreeOK(phone.tree)
  BY <1>1, TreeAssumption DEF NewPhone
<1>3. Len(rx) = 0
  BY <1>1
<1> QED
  BY <1>1, <1>2, <1>3 DEF NamesKept, ReadDirLocals

(* The tree stays one; the names that come, and those that a listing or the *)
(* shell goes on with, are those of files.                                  *)
THEOREM NamesKeptHolds ==
  ASSUME OpensComeWhole
  PROVE  Spec => []NamesKept
<1>1. Init => NamesKept
  BY NamesBegin
<1>2. IInv /\ DataOK /\ NamesKept /\ [Next]_vars => NamesKept'
  BY NamesStep
<1> QED
  BY <1>1, <1>2, DiagInvariantHolds, DataHolds, PTL DEF Spec

----------------------------------------------------------------------------
(* What is below a directory.                                               *)

LEMMA StrictPrefixIs ==
  ASSUME NEW S, NEW s \in Seq(S), NEW t \in Seq(S)
  PROVE  IsStrictPrefix(s, t) <=>
           Len(s) < Len(t) /\ \A i \in 1 .. Len(s) : s[i] = t[i]
<1>0. Len(s) \in Nat /\ Len(t) \in Nat
  OBVIOUS
<1>1. ASSUME Len(s) <= Len(t)
      PROVE  SubSeq(s, 1, Len(s)) = SubSeq(t, 1, Len(s)) <=>
               \A i \in 1 .. Len(s) : s[i] = t[i]
  <2>1. PICK n : n = Len(s)
    OBVIOUS
  <2>2. PICK a : a = SubSeq(s, 1, n)
    OBVIOUS
  <2>3. PICK b : b = SubSeq(t, 1, n)
    OBVIOUS
  <2>4. a \in Seq(S) /\ Len(a) = n /\ \A i \in 1 .. n : a[i] = s[i]
    BY <1>0, <2>1, <2>2
  <2>5. b \in Seq(S) /\ Len(b) = n /\ \A i \in 1 .. n : b[i] = t[i]
    BY <1>0, <1>1, <2>1, <2>3
  <2>6. a = b => \A i \in 1 .. n : s[i] = t[i]
    BY <2>4, <2>5
  <2>7. ASSUME \A i \in 1 .. n : s[i] = t[i]
        PROVE  a = b
    <3>1. Len(a) = Len(b) /\ \A i \in 1 .. Len(a) : a[i] = b[i]
      BY <2>4, <2>5, <2>7
    <3> QED
      BY <2>4, <2>5, <3>1, SeqEqual
  <2> QED
    BY <2>1, <2>2, <2>3, <2>6, <2>7
<1>2. ASSUME Len(s) <= Len(t), \A i \in 1 .. Len(s) : s[i] = t[i], s # t
      PROVE  Len(s) < Len(t)
  <2>1. ASSUME Len(s) = Len(t)
        PROVE  FALSE
    <3>1. Len(s) = Len(t) /\ \A i \in 1 .. Len(s) : s[i] = t[i]
      BY <1>2, <2>1
    <3> QED
      BY <1>2, <3>1, SeqEqual
  <2> QED
    BY <1>0, <1>2, <2>1
<1>3. Len(s) < Len(t) => Len(s) <= Len(t) /\ s # t
  BY <1>0
<1> QED
  BY <1>0, <1>1, <1>2, <1>3 DEF IsStrictPrefix, IsPrefix

LEMMA DirIsNamed ==
  ASSUME NEW tree, TreeOK(tree), NEW d, Listable(d), IsDir(tree, d)
  PROVE  WellNamed(d) /\ d # <<>>
<1>1. PICK S : S = Characters
  OBVIOUS
<1>2. d \in Seq(S) /\ d # <<>> /\ d # <<"/", "/">>
  BY <1>1 DEF Listable
<1>3. PICK q : q = Trimmed(d)
  OBVIOUS
<1>4. /\ Len(q) \in Nat
      /\ \A i \in 1 .. Len(q) : q[i] = d[i]
      /\ Len(d) > 1 /\ d[Len(d)] = "/" => Len(q) = Len(d) - 1
      /\ ~ (Len(d) > 1 /\ d[Len(d)] = "/") => q = d
  BY <1>2, <1>3, TrimmedIs
<1>5. q \in DOMAIN tree
  BY <1>3 DEF IsDir
<1>6. WellNamed(q) /\ (q = Root \/ Len(q) % 2 = 0)
  BY <1>5 DEF TreeOK
<1>7. CASE q = d
  BY <1>2, <1>6, <1>7
<1>8. CASE Len(d) > 1 /\ d[Len(d)] = "/"
  <2>1. Len(d) \in Nat /\ Len(q) = Len(d) - 1
    BY <1>2, <1>4, <1>8
  <2>2. CASE q = Root
    <3>1. Len(q) = 1 /\ q[1] = "/"
      BY <2>2 DEF Root
    <3>2. Len(d) = 2
      <4>1. PICK m : m = Len(d)
        OBVIOUS
      <4>2. PICK k : k = Len(q)
        OBVIOUS
      <4>3. m \in Nat /\ k = m - 1 /\ k = 1
        BY <2>1, <3>1, <4>1, <4>2
      <4>4. m = 2
        BY <4>3
      <4> QED
        BY <4>1, <4>4, Zenon
    <3>3. d[1] = "/" /\ d[2] = "/"
      BY <1>4, <1>8, <3>1, <3>2
    <3>4. d = <<d[1], d[2]>>
      BY <1>2, <3>2
    <3> QED
      BY <1>2, <3>3, <3>4
  <2>3. CASE Len(q) % 2 = 0
    <3>1. PICK n : n = Len(q)
      OBVIOUS
    <3>2. n \in Nat /\ n % 2 = 0 /\ Len(d) = n + 1 /\ DOMAIN d = 1 .. n + 1
      BY <1>2, <1>4, <2>1, <2>3, <3>1
    <3>3. (n + 1) % 2 = 1
      BY <3>2
    <3>4. DOMAIN q = 1 .. n /\ \A i \in 1 .. n : (q[i] = "/") = (i % 2 = 1)
      BY <1>6, <3>1 DEF WellNamed
    <3>5. \A i \in 1 .. n : (d[i] = "/") = (i % 2 = 1)
      BY <1>4, <3>1, <3>4
    <3>6. d[n + 1] = "/"
      BY <1>8, <3>2
    <3>7. \A i \in 1 .. n + 1 : i \in 1 .. n \/ i = n + 1
      BY <3>2
    <3>8. ASSUME NEW i \in DOMAIN d
          PROVE  (d[i] = "/") = (i % 2 = 1)
      <4>1. CASE i \in 1 .. n
        BY <3>5, <4>1
      <4>2. CASE i = n + 1
        BY <3>3, <3>6, <4>2
      <4> QED
        BY <3>2, <3>7, <4>1, <4>2
    <3> QED
      BY <1>1, <1>2, <3>8 DEF WellNamed, Characters
  <2> QED
    BY <1>6, <2>2, <2>3
<1> QED
  BY <1>4, <1>7, <1>8

LEMMA BelowIs ==
  ASSUME NEW tree, TreeOK(tree), NEW d, WellNamed(d), d # <<>>,
         NEW s, s = Slashed(d), NEW y \in DOMAIN tree
  PROVE  y \in Below(tree, d) <=>
           Len(s) < Len(y) /\ \A i \in 1 .. Len(s) : s[i] = y[i]
<1>1. PICK S : S = Letters \cup {"/"}
  OBVIOUS
<1>2. PICK q : q = Trimmed(d)
  OBVIOUS
<1>3. WellNamed(s) /\ WellNamed(y)
  BY <1>2, SlashedIs DEF TreeOK
<1>4. s \in Seq(S) /\ y \in Seq(S)
  BY <1>1, <1>3 DEF WellNamed
<1> QED
  BY <1>4, StrictPrefixIs DEF Below

LEMMA OneBelow ==
  ASSUME NEW tree, TreeOK(tree), NEW d, WellNamed(d), d # <<>>
  PROVE  Below(tree, d) =
           EntriesOf(tree, d)
             \cup UNION {Below(tree, q) : q \in {e \in EntriesOf(tree, d) : tree[e].type = "dir"}}
<1>1. PICK s : s = Slashed(d)
  OBVIOUS
<1> DEFINE E == EntriesOf(tree, d)
           U == UNION {Below(tree, q) : q \in {e \in E : tree[e].type = "dir"}}
<1>2. ASSUME NEW u \in E
      PROVE  /\ u \in DOMAIN tree /\ WellNamed(u) /\ u # <<>>
             /\ Len(s) \in Nat /\ Len(u) \in Nat
             /\ Len(s) < Len(u) /\ Len(u) <= Len(Slashed(u)) /\ Len(Slashed(u)) \in Nat
             /\ \A i \in 1 .. Len(s) : u[i] = s[i]
             /\ \A i \in 1 .. Len(u) : Slashed(u)[i] = u[i]
  <2>1. PICK l \in Letters : u = Under(d, l)
    BY DEF EntriesOf
  <2>2. u \in DOMAIN tree
    BY DEF EntriesOf
  <2>3. /\ WellNamed(u) /\ Len(u) = Len(s) + 1 /\ Len(u) \in Nat
        /\ Len(u) % 2 = 0
        /\ \A i \in 1 .. Len(s) : u[i] = s[i]
    BY <1>1, <2>1, UnderIs
  <2>4. PICK q : q = Trimmed(d)
    OBVIOUS
  <2>5. Len(s) \in Nat
    BY <1>1, <2>4, SlashedIs
  <2>6. u # <<>>
    BY <2>3, <2>5
  <2>7. Trimmed(u) = u
    BY <2>3, TrimmedStays
  <2>8. PICK t : t = Slashed(u)
    OBVIOUS
  <2>9. /\ WellNamed(t) /\ Len(t) \in Nat
        /\ \/ u = Root /\ t = Root
           \/ Len(t) = Len(u) + 1 /\ \A i \in 1 .. Len(u) : t[i] = u[i]
    BY <2>3, <2>6, <2>7, <2>8, SlashedIs
  <2>10. u # Root
    <3>1. PICK m : m = Len(u)
      OBVIOUS
    <3>2. u = Root => m = 1
      BY <3>1 DEF Root
    <3>3. m # 1
      BY <2>3, <3>1
    <3> QED
      BY <3>2, <3>3
  <2> QED
    BY <2>2, <2>3, <2>5, <2>6, <2>8, <2>9, <2>10
<1>3. ASSUME NEW y \in Below(tree, d)
      PROVE  y \in E \cup U
  <2>1. y \in DOMAIN tree
    BY DEF Below
  <2>2. Len(s) < Len(y) /\ \A i \in 1 .. Len(s) : s[i] = y[i]
    BY <1>1, <2>1, BelowIs
  <2>3. PICK l \in Letters :
          LET u == Under(d, l) IN
           /\ u \in DOMAIN tree
           /\ \/ y = u
              \/ /\ tree[u].type = "dir"
                 /\ Len(Slashed(u)) < Len(y)
                 /\ \A i \in 1 .. Len(Slashed(u)) : Slashed(u)[i] = y[i]
    BY <1>1, <2>1, <2>2, EntryOnTheWay
  <2>4. PICK u : u = Under(d, l)
    OBVIOUS
  <2>5. PICK t : t = Slashed(u)
    OBVIOUS
  <2>6. u \in E
    BY <2>3, <2>4 DEF EntriesOf
  <2>7. CASE tree[u].type = "dir" /\ Len(t) < Len(y) /\ \A i \in 1 .. Len(t) : t[i] = y[i]
    <3>1. y \in Below(tree, u)
      BY <1>2, <2>1, <2>5, <2>6, <2>7, BelowIs
    <3> QED
      BY <2>6, <2>7, <3>1
  <2> QED
    BY <2>3, <2>4, <2>5, <2>6, <2>7
<1>4. ASSUME NEW u \in E
      PROVE  u \in Below(tree, d)
  BY <1>1, <1>2, BelowIs
<1>5. ASSUME NEW u \in E, NEW y \in Below(tree, u)
      PROVE  y \in Below(tree, d)
  <2>1. y \in DOMAIN tree
    BY DEF Below
  <2>2. PICK t : t = Slashed(u)
    OBVIOUS
  <2>3. /\ WellNamed(u) /\ u # <<>>
        /\ Len(s) \in Nat /\ Len(u) \in Nat
        /\ Len(s) < Len(u) /\ Len(u) <= Len(t) /\ Len(t) \in Nat
        /\ \A i \in 1 .. Len(s) : u[i] = s[i]
        /\ \A i \in 1 .. Len(u) : t[i] = u[i]
    BY <1>2, <2>2
  <2>4. Len(t) < Len(y) /\ \A i \in 1 .. Len(t) : t[i] = y[i]
    BY <2>1, <2>2, <2>3, BelowIs
  <2>5. WellNamed(y)
    BY <2>1 DEF TreeOK
  <2>6. Len(y) \in Nat
    BY <2>5 DEF WellNamed
  <2>7. Len(s) < Len(y) /\ \A i \in 1 .. Len(s) : s[i] = y[i]
    BY <2>3, <2>4, <2>6
  <2> QED
    BY <1>1, <2>1, <2>7, BelowIs
<1> QED
  <2> HIDE DEF E
  <2> QED
    BY <1>3, <1>4, <1>5 DEF E

----------------------------------------------------------------------------
(* Nothing that is to be listed gets lost.                                  *)

(* A directory with a name and a slash is the directory of that name: when  *)
(* it is one at all, the path before the name ended with a slash.           *)
LEMMA SubIsUnder ==
  ASSUME NEW tree, TreeOK(tree), NEW dir, WellNamed(dir), Listable(dir),
         NEW name \in Letters, IsDir(tree, dir \o <<name, "/">>)
  PROVE  Slashed(dir \o <<name, "/">>) = Slashed(Under(dir, name))
<1> DEFINE sub == dir \o <<name, "/">>
           u == Under(dir, name)
<1>1. PICK S : S = Letters \cup {"/"}
  OBVIOUS
<1>2. /\ Listable(sub)
      /\ Len(sub) = Len(dir) + 2 /\ Len(dir) \in Nat /\ Len(dir) > 0
      /\ \A i \in 1 .. Len(dir) : sub[i] = dir[i]
      /\ sub[Len(dir) + 1] = name /\ sub[Len(dir) + 2] = "/"
  BY SubListable
<1>3. WellNamed(sub)
  BY <1>2, DirIsNamed
<1> HIDE DEF sub
<1>4. PICK n : n = Len(dir)
  OBVIOUS
<1>5. n \in Nat /\ n > 0 /\ DOMAIN sub = 1 .. n + 2 /\ Len(sub) = n + 2
  BY <1>1, <1>2, <1>3, <1>4 DEF WellNamed
<1>6. sub \in Seq(S) /\ dir \in Seq(S) /\ name \in S /\ "/" \in S
  BY <1>1, <1>3 DEF WellNamed
<1>7. (n + 2) % 2 = 1
  <2>1. n + 2 \in 1 .. n + 2
    BY <1>5
  <2>2. (sub[n + 2] = "/") = ((n + 2) % 2 = 1)
    BY <1>3, <1>5, <2>1 DEF WellNamed
  <2> QED
    BY <1>2, <1>4, <2>2
<1>8. n % 2 = 1
  BY <1>5, <1>7
<1>9. dir[n] = "/"
  <2>1. n \in DOMAIN dir
    BY <1>4, <1>5, <1>6
  <2> QED
    BY <1>8, <2>1 DEF WellNamed
<1>10. Slashed(dir) = dir
  BY <1>4, <1>9 DEF Slashed
<1>11. u = Append(dir, name)
  BY <1>10 DEF Under
<1> HIDE DEF u
<1>12. u \in Seq(S) /\ Len(u) = n + 1 /\ u[n + 1] = name
       /\ \A i \in 1 .. n : u[i] = dir[i]
  BY <1>4, <1>5, <1>6, <1>11
<1>13. name # "/"
  <2>1. n + 1 \in 1 .. n + 2 /\ (n + 1) % 2 = 0
    BY <1>5, <1>8
  <2>2. (sub[n + 1] = "/") = ((n + 1) % 2 = 1)
    BY <1>3, <1>5, <2>1 DEF WellNamed
  <2>3. PICK m : m = (n + 1) % 2
    OBVIOUS
  <2>4. m = 0
    BY <2>1, <2>3
  <2>5. sub[n + 1] = "/" => m = 1
    BY <2>2, <2>3
  <2>6. sub[n + 1] # "/"
    BY <2>4, <2>5
  <2> QED
    BY <1>2, <1>4, <2>6
<1>14. Slashed(u) = Append(u, "/")
  BY <1>12, <1>13 DEF Slashed
<1>15. Slashed(sub) = sub
  BY <1>2, <1>4, <1>5 DEF Slashed
<1>16. PICK t : t = Append(u, "/")
  OBVIOUS
<1>17. t \in Seq(S) /\ Len(t) = n + 2 /\ t[n + 2] = "/"
       /\ \A i \in 1 .. n + 1 : t[i] = u[i]
  BY <1>5, <1>6, <1>12, <1>16
<1>18. \A i \in 1 .. n + 2 : i \in 1 .. n \/ i = n + 1 \/ i = n + 2
  BY <1>5
<1>19. ASSUME NEW i \in 1 .. n + 2
       PROVE  sub[i] = t[i]
  <2>1. CASE i \in 1 .. n
    <3>1. i \in 1 .. n + 1
      BY <1>5, <2>1
    <3> QED
      BY <1>2, <1>4, <1>12, <1>17, <2>1, <3>1
  <2>2. CASE i = n + 1
    <3>1. n + 1 \in 1 .. n + 1
      BY <1>5
    <3> QED
      BY <1>2, <1>4, <1>12, <1>17, <2>2, <3>1
  <2>3. CASE i = n + 2
    BY <1>2, <1>4, <1>17, <2>3
  <2> QED
    BY <1>18, <2>1, <2>2, <2>3
<1>20. Len(sub) = Len(t) /\ \A i \in 1 .. Len(sub) : sub[i] = t[i]
  BY <1>5, <1>17, <1>19
<1>21. sub = t
  BY <1>6, <1>17, <1>20, SeqEqual
<1> QED
  BY <1>14, <1>15, <1>16, <1>21 DEF sub, u

LEMMA EntriesListed ==
  ASSUME NEW tree, NEW d, WellNamed(d), d # <<>>,
         NEW names, names = EntryNames(tree, d)
  PROVE  /\ names \in Seq(Letters)
         /\ \A i \in DOMAIN names : /\ names[i] \in Letters
                                    /\ Under(d, names[i]) \in DOMAIN tree
         /\ {Under(d, names[i]) : i \in 1 .. Len(names)} = EntriesOf(tree, d)
<1>1. PICK p : p = [tree |-> tree]
  OBVIOUS
<1>2. p.tree = tree
  BY <1>1
<1>3. PICK q : q = Trimmed(d)
  OBVIOUS
<1>4. names = NamesIn(p, q)
  BY <1>2, <1>3 DEF NamesIn, Names, EntryNames
<1>5. \A l \in Letters : Under(q, l) = Under(d, l)
  <2>1. PICK s : s = Slashed(d)
    OBVIOUS
  <2>2. ASSUME NEW l \in Letters
        PROVE  Under(q, l) = Under(d, l)
    <3>1. PICK u : u = Under(d, l)
      OBVIOUS
    <3> QED
      BY <1>3, <2>1, <3>1, UnderIs
  <2> QED
    BY <2>2
<1>6. /\ names \in Seq(Letters)
      /\ \A i \in DOMAIN names : /\ names[i] \in Letters
                                 /\ Under(q, names[i]) \in DOMAIN tree
      /\ \A l \in Letters : Under(q, l) \in DOMAIN tree =>
           \E i \in 1 .. Len(names) : names[i] = l
  BY <1>2, <1>4, NamesAre
<1>7. DOMAIN names = 1 .. Len(names)
  BY <1>6
<1>8. \A i \in DOMAIN names : names[i] \in Letters /\ Under(d, names[i]) \in DOMAIN tree
  BY <1>5, <1>6
<1>9. \A l \in Letters : Under(d, l) \in DOMAIN tree =>
           \E i \in 1 .. Len(names) : names[i] = l
  BY <1>5, <1>6
<1>10. {Under(d, names[i]) : i \in 1 .. Len(names)} \subseteq EntriesOf(tree, d)
  BY <1>7, <1>8 DEF EntriesOf
<1>11. EntriesOf(tree, d) \subseteq {Under(d, names[i]) : i \in 1 .. Len(names)}
  BY <1>9 DEF EntriesOf
<1> QED
  BY <1>6, <1>8, <1>10, <1>11

(* A directory has been opened: its entries are to come, and what is below  *)
(* them.                                                                    *)
LEMMA OpenedCovers ==
  ASSUME NEW tree, TreeOK(tree), NEW c, ListingTyped(c), c.at = "open",
         Covers(tree, c), IsDir(tree, c.path),
         NEW d, d.at = "read", d.path = c.path, d.top = c.top, d.todo = c.todo,
         d.recursive = c.recursive, d.found = c.found, d.n = c.n, d.below = c.below
  PROVE  Covers(tree, d)
<1>1. PICK dir : dir = c.path
  OBVIOUS
<1>2. PICK todo : todo = Range(c.todo)
  OBVIOUS
<1>3. c.n = 1 /\ Range(c.below) = {} /\ Listable(dir)
  BY <1>1, NoDirs DEF ListingTyped
<1>4. WellNamed(dir) /\ dir # <<>>
  BY <1>1, <1>3, DirIsNamed
<1>5. Pending(c) = {dir} \cup todo /\ Pending(d) = todo
  BY <1>1, <1>2, <1>3 DEF Pending
<1>6. Left(tree, c) = {} /\ Left(tree, d) = EntriesOf(tree, dir)
  <2>1. PICK names : names = EntryNames(tree, dir)
    OBVIOUS
  <2>2. Left(tree, d) = {Under(dir, names[i]) : i \in 1 .. Len(names)}
    BY <1>1, <1>3, <2>1 DEF Left
  <2>3. {Under(dir, names[i]) : i \in 1 .. Len(names)} = EntriesOf(tree, dir)
    BY <1>4, <2>1, EntriesListed
  <2>4. Left(tree, c) = {}
    BY DEF Left
  <2> QED
    BY <2>2, <2>3, <2>4
<1>7. BelowLeft(tree, c) = {}
  BY <1>6 DEF BelowLeft
<1>8. CASE Missing(tree, c)
  BY <1>1, <1>5, <1>8 DEF Missing, Covers
<1>9. CASE ContentOf(tree, c, c.top) = Had(c) \cup Ahead(tree, c)
  <2>1. Had(d) = Had(c) /\ \A p : ContentOf(tree, d, p) = ContentOf(tree, c, p)
    BY DEF Had, ContentOf
  <2>2. PICK rest : rest = UNION {ContentOf(tree, c, p) : p \in todo}
    OBVIOUS
  <2>3. Ahead(tree, c) = ContentOf(tree, c, dir) \cup rest
    BY <1>5, <1>6, <1>7, <2>2 DEF Ahead
  <2>4. Ahead(tree, d) = EntriesOf(tree, dir) \cup rest \cup BelowLeft(tree, d)
    <3>1. {ContentOf(tree, d, p) : p \in Pending(d)} = {ContentOf(tree, c, p) : p \in todo}
      BY <1>5, <2>1
    <3>2. UNION {ContentOf(tree, d, p) : p \in Pending(d)} = rest
      BY <2>2, <3>1
    <3>3. Ahead(tree, d) = Left(tree, d)
            \cup (UNION {ContentOf(tree, d, p) : p \in Pending(d)}) \cup BelowLeft(tree, d)
      BY DEF Ahead
    <3> QED
      BY <1>6, <3>2, <3>3, Zenon
  <2>5. ContentOf(tree, c, dir) = EntriesOf(tree, dir) \cup BelowLeft(tree, d)
    <3>1. CASE c.recursive
      BY <1>4, <1>6, <3>1, OneBelow DEF ContentOf, BelowLeft
    <3>2. CASE ~ c.recursive
      BY <3>2 DEF ContentOf, BelowLeft
    <3> QED
      BY <3>1, <3>2
  <2>6. Ahead(tree, d) = Ahead(tree, c)
    BY <2>3, <2>4, <2>5
  <2> QED
    BY <1>1, <1>9, <2>1, <2>6 DEF Covers
<1> QED
  BY <1>8, <1>9 DEF Covers

(* It has an entry more.                                                    *)
TakesEntry(tree, c, names, u, type, d) ==
  /\ names = EntryNames(tree, c.path)
  /\ c.n \in DOMAIN names
  /\ u = Under(c.path, names[c.n])
  /\ d.at = "read" /\ d.path = c.path /\ d.top = c.top /\ d.todo = c.todo
  /\ d.recursive = c.recursive
  /\ d.n = c.n + 1
  /\ d.found = c.found \cup {<<c.path, names[c.n], type>>}
  /\ d.below = IF tree[u].type = "dir"
               THEN Append(c.below, c.path \o <<names[c.n], "/">>) ELSE c.below

LEMMA TakenCovers ==
  ASSUME NEW tree, TreeOK(tree), NEW c, ListingTyped(c), c.at = "read",
         Covers(tree, c),
         NEW names, NEW u, NEW type, NEW d, TakesEntry(tree, c, names, u, type, d)
  PROVE  Covers(tree, d)
<1>0. /\ names = EntryNames(tree, c.path) /\ c.n \in DOMAIN names
      /\ u = Under(c.path, names[c.n])
      /\ d.at = "read" /\ d.path = c.path /\ d.top = c.top /\ d.todo = c.todo
      /\ d.recursive = c.recursive /\ d.n = c.n + 1
      /\ d.found = c.found \cup {<<c.path, names[c.n], type>>}
      /\ d.below = IF tree[u].type = "dir"
                   THEN Append(c.below, c.path \o <<names[c.n], "/">>) ELSE c.below
  BY DEF TakesEntry
<1>1. PICK dir : dir = c.path
  OBVIOUS
<1>2. PICK n : n = c.n
  OBVIOUS
<1>3. PICK name : name = names[n]
  OBVIOUS
<1>4. Listable(dir) /\ IsDir(tree, dir) /\ n \in Nat \ {0} /\ Dirs(c.below)
  BY <1>1, <1>2, TypedDirs DEF ListingTyped, Covers
<1>5. WellNamed(dir) /\ dir # <<>>
  BY <1>4, DirIsNamed
<1>6. /\ names \in Seq(Letters)
      /\ \A i \in DOMAIN names : /\ names[i] \in Letters
                                 /\ Under(dir, names[i]) \in DOMAIN tree
  BY <1>0, <1>1, <1>5, EntriesListed
<1>7. n \in 1 .. Len(names) /\ Len(names) \in Nat /\ name \in Letters /\ u \in DOMAIN tree
      /\ u = Under(dir, name)
  BY <1>0, <1>1, <1>2, <1>3, <1>6
<1>8. Left(tree, c) = {u} \cup Left(tree, d)
  <2>1. n .. Len(names) = {n} \cup (n + 1) .. Len(names)
    BY <1>7
  <2>2. Left(tree, c) = {Under(dir, names[i]) : i \in n .. Len(names)}
    BY <1>0, <1>1, <1>2 DEF Left
  <2>3. Left(tree, d) = {Under(dir, names[i]) : i \in (n + 1) .. Len(names)}
    BY <1>0, <1>1, <1>2 DEF Left
  <2> QED
    BY <1>3, <1>7, <2>1, <2>2, <2>3
<1>9. Had(d) = Had(c) \cup {u}
  <2>1. PICK e : e = <<dir, name, type>>
    OBVIOUS
  <2>2. e[1] = dir /\ e[2] = name
    BY <2>1
  <2>3. d.found = c.found \cup {e}
    BY <1>0, <1>1, <1>2, <1>3, <2>1
  <2> QED
    BY <1>7, <2>2, <2>3 DEF Had
<1>10. \A p : ContentOf(tree, d, p) = ContentOf(tree, c, p)
  BY <1>0 DEF ContentOf
<1>11. PICK sub : sub = dir \o <<name, "/">>
  OBVIOUS
<1>12. Dirs(d.below) /\
       Range(d.below) = IF tree[u].type = "dir" THEN Range(c.below) \cup {sub} ELSE Range(c.below)
  <2>1. Listable(sub)
    BY <1>1, <1>4, <1>7, <1>11, SubListable
  <2>2. Dirs(Append(c.below, sub)) /\ Range(Append(c.below, sub)) = Range(c.below) \cup {sub}
    BY <1>4, <2>1, DirsAppend
  <2>3. d.below = IF tree[u].type = "dir" THEN Append(c.below, sub) ELSE c.below
    BY <1>0, <1>1, <1>2, <1>3, <1>11
  <2> QED
    BY <1>4, <2>2, <2>3
<1>13. Pending(d) = IF c.recursive /\ tree[u].type = "dir" THEN Pending(c) \cup {sub}
                    ELSE Pending(c)
  BY <1>0, <1>12 DEF Pending
<1>14. CASE Missing(tree, c)
  BY <1>0, <1>1, <1>4, <1>13, <1>14 DEF Missing, Covers
<1>15. CASE ~ (c.recursive /\ tree[u].type = "dir")
            /\ ContentOf(tree, c, c.top) = Had(c) \cup Ahead(tree, c)
  <2>1. BelowLeft(tree, d) = BelowLeft(tree, c)
    BY <1>0, <1>8, <1>15 DEF BelowLeft
  <2>2. UNION {ContentOf(tree, d, p) : p \in Pending(d)} =
          UNION {ContentOf(tree, c, p) : p \in Pending(c)}
    BY <1>10, <1>13, <1>15
  <2>3. Had(c) \cup Ahead(tree, c) = Had(d) \cup Ahead(tree, d)
    BY <1>8, <1>9, <2>1, <2>2 DEF Ahead
  <2> QED
    BY <1>0, <1>1, <1>4, <1>10, <1>15, <2>3 DEF Covers
<1>16. CASE /\ c.recursive /\ tree[u].type = "dir"
            /\ ContentOf(tree, c, c.top) = Had(c) \cup Ahead(tree, c)
  <2>1. CASE ~ IsDir(tree, sub)
    BY <1>0, <1>1, <1>4, <1>13, <1>16, <2>1 DEF Missing, Covers
  <2>2. CASE IsDir(tree, sub)
    <3>1. Below(tree, sub) = Below(tree, u)
      <4>1. Slashed(sub) = Slashed(u)
        BY <1>4, <1>5, <1>7, <1>11, <2>2, SubIsUnder
      <4> QED
        BY <4>1 DEF Below
    <3>2. BelowLeft(tree, c) = BelowLeft(tree, d) \cup Below(tree, u)
      BY <1>0, <1>8, <1>16 DEF BelowLeft
    <3>3. UNION {ContentOf(tree, d, p) : p \in Pending(d)} =
            (UNION {ContentOf(tree, c, p) : p \in Pending(c)}) \cup Below(tree, u)
      <4>1. ContentOf(tree, d, sub) = Below(tree, u)
        BY <1>0, <1>16, <3>1 DEF ContentOf
      <4>2. \A p : p \in Pending(d) <=> p \in Pending(c) \/ p = sub
        BY <1>13, <1>16
      <4>3. {ContentOf(tree, d, p) : p \in Pending(d)} =
              {ContentOf(tree, c, p) : p \in Pending(c)} \cup {Below(tree, u)}
        BY <1>10, <4>1, <4>2
      <4> QED
        <5>1. PICK X : X = {ContentOf(tree, d, p) : p \in Pending(d)}
          OBVIOUS
        <5>2. PICK Y : Y = {ContentOf(tree, c, p) : p \in Pending(c)}
          OBVIOUS
        <5>3. PICK b : b = Below(tree, u)
          OBVIOUS
        <5>4. X = Y \cup {b}
          BY <4>3, <5>1, <5>2, <5>3
        <5>5. \A e : e \in UNION X <=> e \in (UNION Y) \/ e \in b
          BY <5>4
        <5>6. UNION X = (UNION Y) \cup b
          BY <5>5, Zenon
        <5> QED
          BY <5>1, <5>2, <5>3, <5>6
    <3>4. Had(c) \cup Ahead(tree, c) = Had(d) \cup Ahead(tree, d)
      BY <1>8, <1>9, <3>2, <3>3 DEF Ahead
    <3> QED
      BY <1>0, <1>1, <1>4, <1>10, <1>16, <3>4 DEF Covers
  <2> QED
    BY <2>1, <2>2
<1> QED
  BY <1>14, <1>15, <1>16 DEF Covers

----------------------------------------------------------------------------
(* What each step of a listing keeps.                                       *)

(* A listing begins with the directory it is of.                            *)
LEMMA StartCovers ==
  ASSUME NEW tree, NEW path, NEW recursive
  PROVE  Covers(tree, Listing(path, recursive))
<1>1. PICK c : c = Listing(path, recursive)
  OBVIOUS
<1>2. /\ c.at = "open" /\ c.top = path /\ c.path = path /\ c.todo = <<>>
      /\ c.found = {} /\ c.below = <<>>
  BY <1>1, ListingStarts
<1>3. Pending(c) = {path}
  BY <1>2, NoDirs DEF Pending
<1>4. Had(c) = {}
  BY <1>2 DEF Had
<1>5. Left(tree, c) = {}
  BY <1>2 DEF Left
<1>6. BelowLeft(tree, c) = {}
  BY <1>5 DEF BelowLeft
<1>7. {ContentOf(tree, c, p) : p \in Pending(c)} = {ContentOf(tree, c, path)}
  BY <1>3
<1>8. Ahead(tree, c) = ContentOf(tree, c, path)
  BY <1>5, <1>6, <1>7 DEF Ahead
<1>9. ContentOf(tree, c, c.top) = Had(c) \cup Ahead(tree, c)
  BY <1>2, <1>4, <1>8
<1> QED
  BY <1>1, <1>2, <1>9 DEF Covers

(* It has had the last entry of a directory.                                *)
LEMMA EndCovers ==
  ASSUME NEW tree, NEW c, ListingTyped(c), c.at = "read", Covers(tree, c),
         c.n \notin DOMAIN EntryNames(tree, c.path),
         NEW d, d.at = "close", d.path = c.path, d.top = c.top, d.todo = c.todo,
         d.recursive = c.recursive, d.found = c.found, d.below = c.below
  PROVE  Covers(tree, d)
<1>1. PICK names : names = EntryNames(tree, c.path)
  OBVIOUS
<1>2. c.n \in Nat \ {0} /\ IsDir(tree, c.path)
  BY DEF ListingTyped, Covers
<1>3. PICK p : p = [tree |-> tree]
  OBVIOUS
<1>4. p.tree = tree
  BY <1>3
<1>5. PICK q : q = Trimmed(c.path)
  OBVIOUS
<1>6. names = NamesIn(p, q)
  BY <1>1, <1>4, <1>5 DEF NamesIn, Names, EntryNames
<1>7. names \in Seq(Letters)
  BY <1>6, NamesAre
<1>8. c.n \notin 1 .. Len(names) /\ Len(names) \in Nat
  BY <1>1, <1>7
<1>9. Left(tree, c) = {}
  <2>1. PICK n : n = c.n
    OBVIOUS
  <2>2. n .. Len(names) = {}
    BY <1>2, <1>8, <2>1
  <2>3. Left(tree, c) = {Under(c.path, names[i]) : i \in n .. Len(names)}
    BY <1>1, <2>1 DEF Left
  <2> QED
    BY <2>2, <2>3
<1>10. Left(tree, d) = {}
  BY DEF Left
<1>11. BelowLeft(tree, c) = {} /\ BelowLeft(tree, d) = {}
  BY <1>9, <1>10 DEF BelowLeft
<1>12. Pending(d) = Pending(c)
  BY DEF Pending
<1>13. Had(d) = Had(c) /\ \A y : ContentOf(tree, d, y) = ContentOf(tree, c, y)
  BY DEF Had, ContentOf
<1>14. {ContentOf(tree, d, y) : y \in Pending(d)} = {ContentOf(tree, c, y) : y \in Pending(c)}
  BY <1>12, <1>13
<1>15. Ahead(tree, d) = Ahead(tree, c)
  BY <1>9, <1>10, <1>11, <1>14 DEF Ahead
<1>16. Missing(tree, d) = Missing(tree, c)
  BY <1>12 DEF Missing
<1> QED
  BY <1>13, <1>15, <1>16 DEF Covers

(* The next directory is one of those it still has to go through.           *)
LEMMA NextCovers ==
  ASSUME NEW tree, NEW c, c.at = "close", Covers(tree, c),
         NEW q, Dirs(q), q # <<>>,
         Range(q) = Range(c.todo) \cup (IF c.recursive THEN Range(c.below) ELSE {}),
         NEW d, d.at = "open", d.path = Head(q), d.todo = Tail(q), d.below = <<>>,
         d.top = c.top, d.recursive = c.recursive, d.found = c.found
  PROVE  Covers(tree, d)
<1>1. Pending(c) = Range(q)
  BY DEF Pending
<1>2. Pending(d) = Range(q)
  BY NoDirs, DirsHead DEF Pending
<1>3. Left(tree, c) = {} /\ Left(tree, d) = {}
  BY DEF Left
<1>4. BelowLeft(tree, c) = {} /\ BelowLeft(tree, d) = {}
  BY <1>3 DEF BelowLeft
<1>5. Had(d) = Had(c) /\ \A y : ContentOf(tree, d, y) = ContentOf(tree, c, y)
  BY DEF Had, ContentOf
<1>6. {ContentOf(tree, d, y) : y \in Pending(d)} = {ContentOf(tree, c, y) : y \in Pending(c)}
  BY <1>1, <1>2, <1>5
<1>7. Ahead(tree, d) = Ahead(tree, c)
  BY <1>3, <1>4, <1>6 DEF Ahead
<1>8. Missing(tree, d) = Missing(tree, c)
  BY <1>1, <1>2 DEF Missing
<1> QED
  BY <1>5, <1>7, <1>8 DEF Covers

(* With no directory left, it has what is in the one it is of.              *)
LEMMA NoneLeft ==
  ASSUME NEW tree, NEW c, c.at = "close", Covers(tree, c),
         Range(c.todo) \cup (IF c.recursive THEN Range(c.below) ELSE {}) = {}
  PROVE  Had(c) = ContentOf(tree, c, c.top)
<1>1. Pending(c) = {}
  BY DEF Pending
<1>2. Left(tree, c) = {}
  BY DEF Left
<1>3. BelowLeft(tree, c) = {}
  BY <1>2 DEF BelowLeft
<1>4. Ahead(tree, c) = {}
  BY <1>1, <1>2, <1>3 DEF Ahead
<1>5. ~ Missing(tree, c)
  BY <1>1 DEF Missing
<1> QED
  BY <1>4, <1>5 DEF Covers

LEMMA CodesDiffer == 0 # 1 /\ 2 # 1
OBVIOUS

LEMMA OpenDirServed ==
  ASSUME NEW p, PhoneOK(p), NEW req, EfsReq(req), req.sub = "OpenDir",
         NEW s, s = Serve(p, req), ~ ErrorIn(s.answer)
  PROVE  s.phone.tree = p.tree /\ IsDir(p.tree, req.path)
<1>1. s = Opens(p, req, "dir", "dp", IsA(p, req.path, "dir"))
  BY DEF Serve, ServesEfs, EfsReq
<1>2. Refused(p, req).answer = Refusal(req)
  BY DEF Refused, Done
<1>3. ErrorIn(Refusal(req))
  BY RefusalErrs
<1>4. s # Refused(p, req)
  BY <1>2, <1>3
<1> DEFINE h == Free(p, "dir")
           open == Only(<<"dir", h>>, Trimmed(req.path)) ++ p.open
           q == [p EXCEPT !.open = open]
<1>5. IsA(p, req.path, "dir") /\ s = Done(q, Answer(req.sub, Only("dp", h)))
  BY <1>1, <1>4 DEF Opens
<1> HIDE DEF open
<1>6. q.tree = p.tree
  BY DEF PhoneOK
<1>7. s.phone = q
  BY <1>5 DEF Done
<1>8. IsDir(p.tree, req.path)
  BY <1>5 DEF IsA, IsDir
<1> QED
  BY <1>6, <1>7, <1>8

(* A directory that a listing has been asked for, or comes to, is opened.   *)
LEMMA OpeningGoes ==
  ASSUME OpensComeWhole, FewLogs(2), IInv, DataOK, TreeOK(phone.tree),
         NEW c, ListingTyped(c), c.at = "open", ListingOpens(c),
         ~ c.refused => ~ InStep \/ Covers(phone.tree, c)
  PROVE  Thrown \/ (last'.ret = "running" /\ ReadDirGoes')
<1>0. /\ PhoneOK(phone) /\ rx \in Seq(Range(rx)) /\ faults \in 0 .. MaxFaults
      /\ DOMAIN c = ListingFields
  BY DataParts DEF ListingTyped
<1>1. PICK req : \E r \in Exchanges(req) :
        /\ EfsReq(req) /\ req.sub = "OpenDir" /\ req.path = c.path
        /\ Takes(r)
        /\ \/ Thrown
           \/ /\ Heard(req, r)
              /\ last'.ret = "running"
              /\ call'.at = "read"
              /\ call'.refused = (c.refused \/ Refuses(r))
              /\ KeepsFields(ListingFields \ {"at", "x", "refused"}, c)
  BY <1>0, ListingOpened
<1>2. PICK r \in Exchanges(req) :
        /\ EfsReq(req) /\ req.sub = "OpenDir" /\ req.path = c.path
        /\ Takes(r)
        /\ \/ Thrown
           \/ /\ Heard(req, r)
              /\ last'.ret = "running"
              /\ call'.at = "read"
              /\ call'.refused = (c.refused \/ Refuses(r))
              /\ KeepsFields(ListingFields \ {"at", "x", "refused"}, c)
  BY <1>1
<1>3. CASE Thrown
  BY <1>3
<1>4. CASE /\ Heard(req, r)
           /\ last'.ret = "running"
           /\ call'.at = "read"
           /\ call'.refused = (c.refused \/ Refuses(r))
           /\ KeepsFields(ListingFields \ {"at", "x", "refused"}, c)
  <2>1. PICK n : n = 2
    OBVIOUS
  <2>2. n \in Nat /\ Len(rx) <= n
    BY <1>0, <2>1, ShortLine
  <2>3. \/ DoomedBy(rx', phone'.mode, n)
        \/ /\ InStep /\ InStep'
           /\ phone' = Serve(phone, req).phone
           /\ r.heard = Serve(phone, req).answer
    BY <1>0, <1>2, <1>4, <2>2, OpeningExchange
  <2>4. CASE DoomedBy(rx', phone'.mode, n)
    BY <1>4, <2>1, <2>4 DEF ReadDirGoes, Doomed
  <2>5. CASE c.refused \/ Refuses(r)
    BY <1>4, <2>5 DEF ReadDirGoes
  <2>6. CASE /\ ~ c.refused /\ InStep /\ InStep'
             /\ phone' = Serve(phone, req).phone
             /\ r.heard = Serve(phone, req).answer
    <3>1. PICK s : s = Serve(phone, req)
      OBVIOUS
    <3>2. ~ ErrorIn(s.answer)
      BY <1>4, <2>6, <3>1 DEF Heard
    <3>3. s.phone.tree = phone.tree /\ IsDir(phone.tree, c.path)
      BY <1>0, <1>2, <3>1, <3>2, OpenDirServed
    <3>4. PICK tree : tree = phone.tree
      OBVIOUS
    <3>5. TreeOK(tree) /\ Covers(tree, c) /\ IsDir(tree, c.path) /\ phone'.tree = tree
      BY <2>6, <3>1, <3>3, <3>4
    <3>6. PICK d : d = call'
      OBVIOUS
    <3>7. /\ d.at = "read" /\ d.path = c.path /\ d.top = c.top /\ d.todo = c.todo
          /\ d.recursive = c.recursive /\ d.found = c.found /\ d.n = c.n
          /\ d.below = c.below
      BY <1>4, <3>6 DEF KeepsFields, ListingFields
    <3>8. Covers(tree, d)
      BY <3>5, <3>7, OpenedCovers
    <3> QED
      BY <1>4, <2>6, <3>5, <3>6, <3>8 DEF ReadDirGoes
  <2> QED
    BY <2>3, <2>4, <2>5, <2>6
<1> QED
  BY <1>2, <1>3, <1>4

(* The directory that is read is open, by the path that is kept.            *)
LEMMA OwnDir ==
  ASSUME IInv, InStep, Running, CallKind(call.op) = "dir", call.at # "open",
         call.x[3] = call.path,
         NEW req, req.h = call.x[2]
  PROVE  IsOpen(phone, "dir", req.h) /\ DirOf(phone, req) = Trimmed(call.path)
<1>1. call.x \in held /\ call.x[1] = "dir"
  BY DEF IInv, CallOK
<1>2. HandleOf(call.x) = <<"dir", req.h>>
  BY <1>1 DEF HandleOf
<1>3. HandleOf(call.x) \in HeldHandles
  BY <1>1 DEF HeldHandles
<1>4. <<"dir", req.h>> \in DOMAIN phone.open
  BY <1>2, <1>3 DEF IInv, OpenHandles
<1>5. phone.open[<<"dir", req.h>>] = Trimmed(call.path)
  BY <1>1, <1>2 DEF IInv, OpenedFor
<1> QED
  BY <1>4, <1>5 DEF IsOpen, DirOf

(* An entry is taken over as it is in the tree, and the end as the end.     *)
LEMMA TakenGoes ==
  ASSUME PhoneOK(phone), TreeOK(phone.tree), ListingTyped(call), call.at = "read",
         Covers(phone.tree, call), phone'.tree = phone.tree,
         NEW r, EntryTaken(r),
         LET names == EntryNames(phone.tree, call.path)
             n == call.n
             u == Under(call.path, names[n])
         IN  IF n \in DOMAIN names
             THEN /\ NameHeard(r.heard) = names[n]
                  /\ TypeHeard(r.heard) = TypeCode[phone.tree[u].type]
             ELSE NameHeard(r.heard) = ""
  PROVE  Covers(phone'.tree, call')
<1>1. PICK tree : tree = phone.tree
  OBVIOUS
<1>2. PICK c : c = call
  OBVIOUS
<1>3. PICK d : d = call'
  OBVIOUS
<1>4. PICK names : names = EntryNames(tree, c.path)
  OBVIOUS
<1>5. /\ d.top = c.top /\ d.path = c.path /\ d.todo = c.todo /\ d.recursive = c.recursive
      /\ d.name = NameHeard(r.heard)
  BY <1>2, <1>3 DEF EntryTaken, KeepsFields
<1>6. TreeOK(tree) /\ ListingTyped(c) /\ c.at = "read" /\ Covers(tree, c) /\ phone'.tree = tree
  BY <1>1, <1>2
<1>7. WellNamed(c.path) /\ c.path # <<>>
  <2>1. Listable(c.path) /\ IsDir(tree, c.path)
    BY <1>6 DEF ListingTyped, Covers
  <2> QED
    BY <1>6, <2>1, DirIsNamed
<1>8. PICK n : n = c.n
  OBVIOUS
<1>9. CASE n \notin DOMAIN names
  <2>1. d.name = ""
    BY <1>1, <1>2, <1>4, <1>5, <1>8, <1>9
  <2>2. d.at = "close" /\ d.found = c.found /\ d.below = c.below
    BY <1>2, <1>3, <2>1 DEF EntryTaken, KeepsFields
  <2>3. Covers(tree, d)
    BY <1>4, <1>5, <1>6, <1>8, <1>9, <2>2, EndCovers
  <2> QED
    BY <1>3, <1>6, <2>3
<1>10. CASE n \in DOMAIN names
  <2>1. PICK name : name = names[n]
    OBVIOUS
  <2>2. PICK u : u = Under(c.path, name)
    OBVIOUS
  <2>3. PICK type : type = TypeHeard(r.heard)
    OBVIOUS
  <2>4. d.name = name /\ type = TypeCode[tree[u].type]
    BY <1>1, <1>2, <1>4, <1>5, <1>8, <1>10, <2>1, <2>2, <2>3
  <2>5. name \in Letters /\ u \in DOMAIN tree
    BY <1>4, <1>7, <1>10, <2>1, <2>2, EntriesListed
  <2>6. d.name # ""
    BY <2>4, <2>5, PhoneAssumption, TreeAssumption
  <2>7. /\ d.at = "read" /\ d.n = c.n + 1
        /\ d.found = c.found \cup {<<c.path, name, type>>}
        /\ d.below = IF type # TypeCode.dir THEN c.below ELSE Append(c.below, SubPath(name))
    BY <1>2, <1>3, <2>3, <2>4, <2>6 DEF EntryTaken
  <2>8. type = TypeCode.dir <=> tree[u].type = "dir"
    <3>1. tree[u].type \in NodeTypes
      BY <1>1, <2>5 DEF PhoneOK
    <3>2. PICK t : t = tree[u].type
      OBVIOUS
    <3>3. TypeCode["file"] = 0 /\ TypeCode["dir"] = 1 /\ TypeCode["link"] = 2
          /\ TypeCode.dir = 1
      BY DEF TypeCode
    <3>4. type = TypeCode[t] /\ t \in {"file", "dir", "link"}
      BY <2>4, <3>1, <3>2 DEF NodeTypes
    <3>5. type = 1 <=> t = "dir"
      <4>0. "file" # "dir" /\ "link" # "dir"
        OBVIOUS
      <4>1. CASE t = "file"
        BY <3>3, <3>4, <4>0, CodesDiffer, <4>1, Zenon
      <4>2. CASE t = "dir"
        BY <3>3, <3>4, <4>2
      <4>3. CASE t = "link"
        BY <3>3, <3>4, <4>0, CodesDiffer, <4>3, Zenon
      <4> QED
        BY <3>4, <4>1, <4>2, <4>3
    <3> QED
      BY <3>2, <3>3, <3>5
  <2>9. SubPath(name) = c.path \o <<name, "/">>
    BY <1>2 DEF SubPath
  <2>10. d.below = IF tree[u].type = "dir" THEN Append(c.below, c.path \o <<name, "/">>)
                   ELSE c.below
    BY <2>7, <2>8, <2>9
  <2>11. Covers(tree, d)
    <3>1. /\ c.n \in DOMAIN names /\ u = Under(c.path, names[c.n])
          /\ d.found = c.found \cup {<<c.path, names[c.n], type>>}
          /\ d.below = IF tree[u].type = "dir"
                       THEN Append(c.below, c.path \o <<names[c.n], "/">>) ELSE c.below
      BY <1>8, <1>10, <2>1, <2>2, <2>7, <2>10
    <3>2. d.at = "read" /\ d.n = c.n + 1
      BY <2>7
    <3>3. TakesEntry(tree, c, names, u, type, d)
      BY <1>4, <1>5, <3>1, <3>2 DEF TakesEntry
    <3> QED
      BY <1>6, <3>3, TakenCovers
  <2> QED
    BY <1>3, <1>6, <2>11
<1> QED
  BY <1>9, <1>10

(* The next entry of the directory that is read.                            *)
LEMMA EntryGoes ==
  ASSUME IInv, DataOK, NamesKept, ReadDirGoes, ReadDir_Read
  PROVE  Thrown \/ (last'.ret = "running" /\ ReadDirGoes')
<1>0. /\ CallOK /\ LastOK /\ PhoneOK(phone) /\ rx \in Seq(Range(rx))
      /\ TreeOK(phone.tree)
  BY DataParts DEF NamesKept
<1>1. /\ call.op = "readDir" /\ call.at = "read" /\ Running
      /\ CallKind(call.op) = "dir" /\ call.at # "open"
  BY DEF ReadDir_Read, Running, CallKind
<1>2. ListingTyped(call) /\ DOMAIN call = ListingFields /\ call.x[3] = call.path
  BY <1>1 DEF NamesKept, ReadDirLocals, ListingTyped
<1>3. PICK r \in Exchanges(EntryRequest) :
        /\ Takes(r)
        /\ \/ Thrown
           \/ /\ last'.ret = "running"
              /\ call'.at = "abort"
           \/ /\ r.heard # Silence
              /\ ~ SendThrows(EntryRequest, r.heard)
              /\ EntryTaken(r)
  BY <1>0, <1>1, <1>2, ListingReads
<1>4. CASE Thrown
  BY <1>4
<1>5. CASE last'.ret = "running" /\ call'.at = "abort"
  BY <1>5 DEF ReadDirGoes
<1>6. CASE /\ r.heard # Silence
           /\ ~ SendThrows(EntryRequest, r.heard)
           /\ EntryTaken(r)
  <2>1. last'.ret = "running" /\ call'.refused = (call.refused \/ Refuses(r))
    BY <1>6 DEF EntryTaken
  <2>2. CASE call.refused \/ Refuses(r)
    BY <2>1, <2>2 DEF ReadDirGoes
  <2>3. CASE ~ call.refused /\ ~ Refuses(r)
    <3>1. PICK n : n = 1
      OBVIOUS
    <3>2. n \in Nat /\ n >= 1 /\ n + 1 = 2
      BY <3>1
    <3>3. Doomed(2) \/ (InStep /\ Covers(phone.tree, call))
      BY <1>1, <2>3 DEF ReadDirGoes
    <3>4. DoomedBy(rx, phone.mode, n + 1) \/ InStep
      BY <3>2, <3>3 DEF Doomed
    <3>5. PICK req : req = EntryRequest
      OBVIOUS
    <3>6. EfsReq(req) /\ req.sub = "ReadDir" /\ req.h = call.x[2] /\ req.sequence = call.n
      BY <3>5, EntryRequestIs
    <3>7. \/ DoomedBy(rx', phone'.mode, n)
          \/ rx' = <<Remainder>>
          \/ /\ InStep /\ InStep'
             /\ phone' = Serve(phone, req).phone
             /\ r.heard = Serve(phone, req).answer
      BY <1>0, <1>3, <1>6, <2>3, <3>2, <3>4, <3>5, <3>6, SteadyAnswer
    <3>8. call'.at = "close" \/ call'.at = "read"
      BY <1>6 DEF EntryTaken
    <3>9. CASE DoomedBy(rx', phone'.mode, n) \/ rx' = <<Remainder>>
      <4>1. DoomedBy(rx', phone'.mode, n)
        BY <3>2, <3>9, RemainderDooms
      <4>2. DoomedBy(rx', phone'.mode, 1)
        BY <3>1, <4>1
      <4>3. DoomedBy(rx', phone'.mode, 2)
        BY <4>1, <3>1 DEF DoomedBy
      <4> QED
        BY <2>1, <3>8, <4>2, <4>3 DEF ReadDirGoes, Doomed
    <3>10. CASE /\ InStep /\ InStep'
                /\ phone' = Serve(phone, req).phone
                /\ r.heard = Serve(phone, req).answer
      <4>1. PICK s : s = Serve(phone, req)
        OBVIOUS
      <4>2. IsOpen(phone, "dir", req.h) /\ DirOf(phone, req) = Trimmed(call.path)
        BY <1>1, <1>2, <3>6, <3>10, OwnDir
      <4>3. /\ s.phone = phone
            /\ "name" \in DOMAIN s.answer.f /\ "entryType" \in DOMAIN s.answer.f
            /\ Got(s.answer, "name") = NameAt(phone, req)
            /\ req.sequence \in DOMAIN NamesIn(phone, DirOf(phone, req)) =>
                 Got(s.answer, "entryType") =
                   TypeCode[phone.tree[Under(DirOf(phone, req), NameAt(phone, req))].type]
        BY <3>6, <4>1, <4>2, EntryServed
      <4>4. NameHeard(s.answer) = NameAt(phone, req)
            /\ TypeHeard(s.answer) = Got(s.answer, "entryType")
        BY <4>3 DEF NameHeard, TypeHeard, Got
      <4>5. PICK names : names = EntryNames(phone.tree, call.path)
        OBVIOUS
      <4>6. NamesIn(phone, DirOf(phone, req)) = names
        BY <4>2, <4>5 DEF NamesIn, Names, EntryNames
      <4>7. NameAt(phone, req) = IF call.n \in DOMAIN names THEN names[call.n] ELSE ""
        BY <3>6, <4>6 DEF NameAt
      <4>8. Covers(phone.tree, call)
        BY <3>3, <3>10 DEF Doomed, DoomedBy, InStep
      <4>9. ASSUME call.n \in DOMAIN names
            PROVE  TypeHeard(s.answer) =
                     TypeCode[phone.tree[Under(call.path, names[call.n])].type]
        <5>1. TypeHeard(s.answer) =
                TypeCode[phone.tree[Under(Trimmed(call.path), names[call.n])].type]
          BY <3>6, <4>2, <4>3, <4>4, <4>6, <4>7, <4>9
        <5>2. WellNamed(call.path) /\ call.path # <<>>
          <6>1. Listable(call.path) /\ IsDir(phone.tree, call.path)
            BY <1>1, <1>2, <4>8 DEF ListingTyped, Covers
          <6> QED
            BY <1>0, <6>1, DirIsNamed
        <5>3. names[call.n] \in Letters
          BY <4>5, <4>9, <5>2, EntriesListed
        <5>4. Under(Trimmed(call.path), names[call.n]) = Under(call.path, names[call.n])
          BY <5>2, <5>3, UnderIs
        <5> QED
          BY <5>1, <5>4
      <4>10. phone'.tree = phone.tree /\ r.heard = s.answer
        BY <3>10, <4>1, <4>3
      <4>11. Covers(phone'.tree, call')
        BY <1>0, <1>1, <1>2, <1>6, <4>4, <4>5, <4>7, <4>8, <4>9, <4>10, TakenGoes
      <4> QED
        BY <2>1, <3>10, <4>11 DEF ReadDirGoes
    <3> QED
      BY <3>7, <3>9, <3>10
  <2> QED
    BY <2>2, <2>3
<1> QED
  BY <1>3, <1>4, <1>5, <1>6

(* A directory is closed, and the next one asked for or the list returned.  *)
LEMMA ClosingGoes ==
  ASSUME IInv, DataOK, NamesKept, ReadDirGoes, ReadDir_Close
  PROVE  \/ Thrown
         \/ last'.ret = "running" /\ ReadDirGoes'
         \/ call'.op = "none" /\ ListingIsWhole'
<1>0. CallOK /\ LastOK /\ PhoneOK(phone) /\ FilesOK(phone)
  BY DataParts
<1>1. call.op = "readDir" /\ call.at = "close" /\ Running
  BY DEF ReadDir_Close, Running
<1>2. ListingTyped(call) /\ DOMAIN call = ListingFields
  BY <1>1 DEF NamesKept, ReadDirLocals, ListingTyped
<1>3. PICK q : q = ToList
  OBVIOUS
<1>4. PICK req : \E r \in Exchanges(req) :
        /\ req = HandleRequest("CloseDir", call.x[2])
        /\ Takes(r)
        /\ \/ Thrown
           \/ /\ Heard(req, r)
              /\ q # <<>>
              /\ last'.ret = "running"
              /\ call'.at = "open" /\ call'.path = Head(q)
              /\ call'.todo = Tail(q) /\ call'.below = <<>>
              /\ KeepsFields({"op", "top", "recursive", "found", "refused"}, call)
           \/ /\ Heard(req, r)
              /\ q = <<>>
              /\ call'.op = "none"
              /\ last'.ret = "ok" /\ last'.arg = call.top
              /\ last'.value.refused = (call.refused \/ Refuses(r))
              /\ last'.value.found = call.found
              /\ last'.value.recursive = call.recursive
  BY <1>0, <1>1, <1>2, <1>3, ListingCloses
<1>5. PICK r \in Exchanges(req) :
        /\ req = HandleRequest("CloseDir", call.x[2])
        /\ Takes(r)
        /\ \/ Thrown
           \/ /\ Heard(req, r)
              /\ q # <<>>
              /\ last'.ret = "running"
              /\ call'.at = "open" /\ call'.path = Head(q)
              /\ call'.todo = Tail(q) /\ call'.below = <<>>
              /\ KeepsFields({"op", "top", "recursive", "found", "refused"}, call)
           \/ /\ Heard(req, r)
              /\ q = <<>>
              /\ call'.op = "none"
              /\ last'.ret = "ok" /\ last'.arg = call.top
              /\ last'.value.refused = (call.refused \/ Refuses(r))
              /\ last'.value.found = call.found
              /\ last'.value.recursive = call.recursive
  BY <1>4
<1>6. EfsReq(req) /\ req.sub = "CloseDir"
  BY <1>5, AnswerTable, HandleRequestIs
<1>7. PICK c : c = call
  OBVIOUS
<1>8. PICK tree : tree = phone.tree
  OBVIOUS
<1>9. /\ Dirs(q)
      /\ Range(q) = Range(c.todo) \cup (IF c.recursive THEN Range(c.below) ELSE {})
  BY <1>2, <1>3, <1>7, ToListDirs
<1>10. ASSUME ~ call.refused, Heard(req, r)
       PROVE  InStep /\ phone'.tree = tree /\ c.at = "close" /\ Covers(tree, c)
  <2>1. Doomed(1) \/ (InStep /\ Covers(phone.tree, call))
    BY <1>1, <1>10 DEF ReadDirGoes
  <2>2. InStep /\ phone'.tree = phone.tree
    BY <1>0, <1>5, <1>6, <1>10, <2>1, CloseAnswers
  <2>3. ~ Doomed(1)
    BY <2>2 DEF Doomed, DoomedBy, InStep
  <2> QED
    BY <1>1, <1>7, <1>8, <2>1, <2>2, <2>3
<1>11. CASE Thrown
  BY <1>11
<1>12. CASE /\ Heard(req, r)
            /\ q # <<>>
            /\ last'.ret = "running"
            /\ call'.at = "open" /\ call'.path = Head(q)
            /\ call'.todo = Tail(q) /\ call'.below = <<>>
            /\ KeepsFields({"op", "top", "recursive", "found", "refused"}, call)
  <2>1. PICK d : d = call'
    OBVIOUS
  <2>2. /\ d.at = "open" /\ d.path = Head(q) /\ d.todo = Tail(q) /\ d.below = <<>>
        /\ d.top = c.top /\ d.recursive = c.recursive /\ d.found = c.found
        /\ d.refused = c.refused
    BY <1>7, <1>12, <2>1 DEF KeepsFields
  <2>3. CASE call.refused
    BY <1>7, <1>12, <2>1, <2>2, <2>3 DEF ReadDirGoes
  <2>4. CASE ~ call.refused
    <3>1. c.at = "close" /\ Covers(tree, c) /\ phone'.tree = tree
      BY <1>10, <1>12, <2>4
    <3>2. Covers(tree, d)
      BY <1>9, <1>12, <2>2, <3>1, NextCovers
    <3> QED
      BY <1>12, <2>1, <3>1, <3>2 DEF ReadDirGoes
  <2> QED
    BY <2>3, <2>4
<1>13. CASE /\ Heard(req, r)
            /\ q = <<>>
            /\ call'.op = "none"
            /\ last'.ret = "ok" /\ last'.arg = call.top
            /\ last'.value.refused = (call.refused \/ Refuses(r))
            /\ last'.value.found = call.found
            /\ last'.value.recursive = call.recursive
  <2>1. CASE call.refused
    BY <1>13, <2>1 DEF ListingIsWhole
  <2>2. CASE ~ call.refused
    <3>1. c.at = "close" /\ Covers(tree, c) /\ phone'.tree = tree
      BY <1>10, <1>13, <2>2
    <3>2. Range(q) = {}
      BY <1>13, NoDirs
    <3>3. Had(c) = ContentOf(tree, c, c.top)
      BY <1>9, <3>1, <3>2, NoneLeft
    <3>4. PICK v : v = last'.value
      OBVIOUS
    <3>5. PICK top : top = last'.arg
      OBVIOUS
    <3>6. v.found = c.found /\ v.recursive = c.recursive /\ top = c.top
      BY <1>7, <1>13, <3>4, <3>5
    <3>7. {Under(e[1], e[2]) : e \in v.found} = Had(c)
      BY <3>6 DEF Had
    <3>8. {p \in DOMAIN tree :
             IF v.recursive THEN IsStrictPrefix(Slashed(top), p)
             ELSE \E n \in Letters : p = Under(top, n)} = ContentOf(tree, c, c.top)
      <4>1. CASE c.recursive
        BY <3>6, <4>1 DEF ContentOf, Below
      <4>2. CASE ~ c.recursive
        BY <3>6, <4>2 DEF ContentOf, EntriesOf
      <4> QED
        BY <4>1, <4>2
    <3>9. {Under(e[1], e[2]) : e \in v.found} =
            {p \in DOMAIN phone'.tree :
               IF v.recursive THEN IsStrictPrefix(Slashed(top), p)
               ELSE \E n \in Letters : p = Under(top, n)}
      BY <3>1, <3>3, <3>7, <3>8
    <3> QED
      BY <1>13, <3>4, <3>5, <3>9 DEF ListingIsWhole
  <2> QED
    BY <2>1, <2>2
<1> QED
  BY <1>5, <1>11, <1>12, <1>13

LEMMA ListingOwn ==
  ASSUME OpensComeWhole, FewLogs(2), IInv, DataOK, NamesKept, ReadDirGoes,
         OwnStep("readDir")
  PROVE  \/ Thrown
         \/ last'.ret = "running" /\ ReadDirGoes'
         \/ call'.op = "none" /\ ListingIsWhole'
<1>0. TreeOK(phone.tree) /\ ReadDirLocals /\ (Shelling => ShellPath(cPath))
  BY DEF NamesKept
<1>1. CASE ReadDir \/ Shell_Lists
  <2>1. CASE \E path, recursive : /\ Listable(path)
                                  /\ recursive \in BOOLEAN
                                  /\ ListingOpens(Listing(path, recursive))
    <3>1. PICK path, recursive : Listable(path) /\ ListingOpens(Listing(path, recursive))
      BY <2>1
    <3>2. PICK c : c = Listing(path, recursive)
      OBVIOUS
    <3>3. ListingTyped(c) /\ c.at = "open" /\ ListingOpens(c)
      BY <3>1, <3>2, StartTyped
    <3>4. PICK tree : tree = phone.tree
      OBVIOUS
    <3>5. Covers(tree, c)
      BY <3>2, StartCovers
    <3> QED
      BY <1>0, <3>3, <3>4, <3>5, OpeningGoes
  <2> QED
    BY <1>0, <1>1, <2>1, ListingBegins
<1>2. CASE ReadDir_Open
  <2>1. call.op = "readDir" /\ call.at = "open" /\ ListingOpens(call)
    BY <1>2 DEF ReadDir_Open
  <2>2. ListingTyped(call) /\ (~ call.refused => ~ InStep \/ Covers(phone.tree, call))
    BY <1>0, <2>1 DEF ReadDirLocals, ReadDirGoes
  <2> QED
    BY <1>0, <2>1, <2>2, OpeningGoes
<1>3. CASE ReadDir_Read
  BY <1>3, EntryGoes
<1>4. CASE ReadDir_Abort
  BY <1>4, ListingAborts
<1>5. CASE ReadDir_Close
  BY <1>5, ClosingGoes
<1> QED
  BY <1>1, <1>2, <1>3, <1>4, <1>5 DEF OwnStep

LEMMA ListingKeeps ==
  ASSUME OpensComeWhole, FewLogs(2), IInv, DataOK, NamesKept,
         ReadDirGoes, ListingIsWhole, [Next]_vars
  PROVE  ReadDirGoes' /\ ListingIsWhole'
<1>0. CallOK /\ LastOK
  BY DataParts
<1>1. CASE UNCHANGED vars
  BY <1>1 DEF vars, lineVars, qcdmVars, efsVars, ReadDirGoes, ListingIsWhole, Doomed, InStep
<1>2. CASE Next
  <2>1. CASE Elsewhere("readDir")
    BY <2>1 DEF Elsewhere, ReadDirGoes, ListingIsWhole
  <2>2. CASE Thrown
    BY <2>2 DEF Thrown, ReadDirGoes, ListingIsWhole
  <2>3. CASE last'.ret = "running" /\ ReadDirGoes'
    BY <2>3 DEF ListingIsWhole
  <2>4. CASE call'.op = "none" /\ ListingIsWhole'
    BY <2>4 DEF ReadDirGoes
  <2> QED
    BY <1>0, <1>2, <2>1, <2>2, <2>3, <2>4, ListingOwn, StepsElsewhere DEF Long
<1> QED
  BY <1>1, <1>2

(* A readDir that returns has every entry, also those below when it is      *)
(* recursive, unless the phone refused a request: with a line that is no    *)
(* more packets behind than its last two requests notice.                   *)
THEOREM ListingIsWholeHolds ==
  ASSUME OpensComeWhole, FewLogs(2)
  PROVE  Spec => []ListingIsWhole
<1>1. Init => ReadDirGoes /\ ListingIsWhole
  BY DEF Init, EfsInit, QcdmInit, NoCall, NotRunning, ReadDirGoes, ListingIsWhole
<1>2. IInv /\ DataOK /\ NamesKept /\ ReadDirGoes /\ ListingIsWhole /\ [Next]_vars =>
        ReadDirGoes' /\ ListingIsWhole'
  BY ListingKeeps
<1>3. Spec => [](IInv /\ DataOK /\ NamesKept)
  BY DiagInvariantHolds, DataHolds, NamesKeptHolds, PTL
<1> QED
  BY <1>1, <1>2, <1>3, PTL DEF Spec
================================================================================
