---------------------------- MODULE UserExecProofs ----------------------------
(***************************************************************************)
(* For any programs, regions and images: a program that starts finds       *)
(* through its GOT what it was linked with.  Before that, for any span,    *)
(* label buffer, entries and names: what make_entry.c writes               *)
(* flash_resource.c reads.  The reader is at a pak whenever it takes one   *)
(* for a pak, and finds the first one whose label begins with the name.    *)
(***************************************************************************)
EXTENDS UserExec, SequenceTheorems, TLAPS

-----------------------------------------------------------------------------
(* The flash resources.                                                    *)

Paks == {e \in [start : Nat, label : {e.label : e \in Entries}, payload : {e.payload : e \in Entries}] :
           Len(e.label) \in Nat /\ Len(e.payload) \in Nat}

\* Where the n-th pak begins; the last one is followed by the end of the image.
StartOf(n) == IF n <= Len(image) THEN image[n].start ELSE end

\* Pak after pak, without gaps, the length in each header leading to the next.
Tiled ==
  /\ image \in Seq(Paks) /\ Len(image) <= MaxPaks
  /\ StartOf(1) = SpanStart
  /\ \A n \in 1 .. Len(image) :
       /\ StartOf(n + 1) = image[n].start + WriterLength(image[n])
       /\ image[n].start % 32 = 0 /\ image[n].start \in SpanStart .. end
  /\ end % 32 = 0 /\ end \in SpanStart .. SpanStart + SpanSize

\* Each pak is in flash as its file was, and nothing is behind the last.
Stored ==
  /\ \A n \in 1 .. Len(image) :
       LET file == PakFile(image[n], image[n].start)
       IN \A a \in DOMAIN file : a \in DOMAIN flash /\ flash[a] = file[a]
  /\ \A a \in DOMAIN flash : a \in SpanStart .. end - 1

\* Where the reader is, and what it has passed.
Walking ==
  /\ pc # "host" => span = [setup |-> TRUE, start |-> SpanStart, end |-> SpanStart + SpanSize]
  /\ span \in [setup : BOOLEAN, start : Nat, end : Nat]
  /\ name \in Names \cup {<< >>}
  /\ cursor \in Nat
  /\ pak \in [length : Nat, start : Nat, size : Nat]
  /\ pc = "init" => \E n \in 1 .. Len(image) + 1 : cursor = StartOf(n)
  /\ pc = "lookup" =>
       \E n \in 1 .. Len(image) + 1 :
         /\ cursor = StartOf(n)
         /\ \A m \in 1 .. n - 1 : ~BeginsWith(Kept(image[m].label), name)
  /\ pc = "found" => \E n \in 1 .. Len(image) : cursor = image[n].start /\ FoundAt(n)
  /\ pc = "missing" => \A n \in 1 .. Len(image) : ~BeginsWith(Kept(image[n].label), name)

FlashInv == Tiled /\ Stored /\ Walking

-----------------------------------------------------------------------------
(* The writer.                                                             *)

\* The length in the header is the length of the two buffers, and a multiple
\* of the alignment, so that the next pak is aligned as well.
LEMMA LengthIsWritten ==
  ASSUME NEW e, Len(e.label) \in Nat, Len(e.payload) \in Nat
  PROVE  /\ WriterLength(e) = WriterHeaderSize(e) + WriterPayloadSize(e)
         /\ WriterLength(e) % 32 = 0
         /\ WriterHeaderSize(e) % 32 = 0 /\ WriterHeaderSize(e) \in Nat
         /\ WriterHeaderSize(e) > 32 + Len(e.label)
         /\ WriterPayloadSize(e) > PayloadLength(e) /\ WriterPayloadSize(e) \in Nat
         /\ PayloadLength(e) \in Nat
<1> DEFINE n == Len(e.label)
           p == 4 * Len(e.payload)
           h == 32 + n + (32 - ((32 + n) % 32))
<1>1. n \in Nat /\ p \in Nat /\ PayloadLength(e) = p
  BY DEF PayloadLength
<1>2. WriterHeaderSize(e) = h /\ WriterPayloadSize(e) = p + (32 - (p % 32))
      /\ WriterLength(e) = h + p + (32 - ((h + p) % 32))
  BY DEF WriterHeaderSize, WriterPayloadSize, WriterLength, Align, HeaderSize,
     PakAlignment, PayloadLength
<1> HIDE DEF n, p
<1>3. h \in Nat /\ h % 32 = 0 /\ h > 32 + n
  BY <1>1
<1> HIDE DEF h
<1>4. (h + p) % 32 = p % 32
  BY <1>1, <1>3
<1>5. p % 32 \in 0 .. 31 /\ (p + (32 - (p % 32))) % 32 = 0
  BY <1>1
<1>6. h + p + (32 - (p % 32)) = h + (p + (32 - (p % 32)))
  BY <1>1, <1>3, <1>5
<1>7. (h + (p + (32 - (p % 32)))) % 32 = 0
  BY <1>1, <1>3, <1>5
<1>8. QED
  BY <1>1, <1>2, <1>3, <1>4, <1>5, <1>6, <1>7 DEF n

\* Aligned lengths behind an aligned start keep everything aligned.
LEMMA SumAligned ==
  ASSUME NEW x \in Nat, NEW y \in Nat, x % 32 = 0, y % 32 = 0
  PROVE  (x + y) % 32 = 0
OBVIOUS

\* What is where in a pak.
LEMMA FileCells ==
  ASSUME NEW e, Len(e.label) \in Nat, Len(e.payload) \in Nat, NEW start \in Nat
  PROVE  /\ \A k \in 0 .. 7 : start + 4 * k \in DOMAIN PakFile(e, start)
                               /\ PakFile(e, start)[start + 4 * k] = HeaderWords(e)[k]
         /\ start + 32 \in DOMAIN PakFile(e, start)
         /\ PakFile(e, start)[start + 32] = e.label
         /\ \A k \in 1 .. Len(e.payload) :
              /\ start + WriterHeaderSize(e) + 4 * (k - 1) \in DOMAIN PakFile(e, start)
              /\ PakFile(e, start)[start + WriterHeaderSize(e) + 4 * (k - 1)] = e.payload[k]
         /\ \A a \in DOMAIN PakFile(e, start) : a \in start .. start + WriterLength(e) - 1
<1> DEFINE body == start + WriterHeaderSize(e)
           file == PakFile(e, start)
<1>1. /\ body \in Nat /\ body > start + 32
      /\ WriterLength(e) \in Nat /\ body + 4 * Len(e.payload) < start + WriterLength(e)
  <2>1. /\ WriterLength(e) = WriterHeaderSize(e) + WriterPayloadSize(e)
        /\ WriterHeaderSize(e) \in Nat /\ WriterHeaderSize(e) > 32 + Len(e.label)
        /\ WriterPayloadSize(e) > PayloadLength(e) /\ WriterPayloadSize(e) \in Nat
    BY LengthIsWritten, Zenon
  <2>2. PayloadLength(e) = 4 * Len(e.payload)
    BY DEF PayloadLength
  <2>3. QED
    BY <2>1, <2>2
<1>2. DOMAIN file = HeaderCells(start) \cup {LabelCell(start)} \cup PayloadCells(e, body)
  BY DEF PakFile
<1>3. \A a \in DOMAIN file :
        file[a] = IF a < start + 32 THEN HeaderWords(e)[(a - start) \div 4]
                  ELSE IF a = start + 32 THEN e.label
                  ELSE e.payload[(a - body) \div 4 + 1]
  BY DEF PakFile, LabelCell, HeaderSize
<1> HIDE DEF body, file
<1>4. ASSUME NEW k \in 0 .. 7
      PROVE  start + 4 * k \in DOMAIN file /\ file[start + 4 * k] = HeaderWords(e)[k]
  <2>1. start + 4 * k \in DOMAIN file
    BY <1>2 DEF HeaderCells
  <2>2. start + 4 * k < start + 32 /\ ((start + 4 * k) - start) \div 4 = k
    OBVIOUS
  <2>3. QED
    BY <1>3, <2>1, <2>2
<1>5. start + 32 \in DOMAIN file /\ file[start + 32] = e.label
  <2>1. start + 32 \in DOMAIN file
    BY <1>2 DEF LabelCell, HeaderSize
  <2>2. QED
    BY <1>3, <2>1
<1>6. ASSUME NEW k \in 1 .. Len(e.payload)
      PROVE  body + 4 * (k - 1) \in DOMAIN file
               /\ file[body + 4 * (k - 1)] = e.payload[k]
  <2>1. body + 4 * (k - 1) \in DOMAIN file
    BY <1>2 DEF PayloadCells
  <2>2. ~(body + 4 * (k - 1) < start + 32) /\ body + 4 * (k - 1) # start + 32
    BY <1>1
  <2>3. ((body + 4 * (k - 1)) - body) \div 4 + 1 = k
    BY <1>1
  <2>4. file[body + 4 * (k - 1)] = e.payload[((body + 4 * (k - 1)) - body) \div 4 + 1]
    BY <1>3, <2>1, <2>2, Zenon
  <2>5. QED
    BY <2>1, <2>3, <2>4, Zenon
<1>7. ASSUME NEW a \in DOMAIN file
      PROVE  a \in start .. start + WriterLength(e) - 1
  <2>1. CASE a \in HeaderCells(start)
    <3>1. PICK k \in 0 .. 7 : a = start + 4 * k
      BY <2>1 DEF HeaderCells
    <3>2. QED
      BY <1>1, <3>1
  <2>4. CASE a = LabelCell(start)
    BY <1>1, <2>4 DEF LabelCell, HeaderSize
  <2>2. CASE a \in PayloadCells(e, body)
    <3>1. PICK k \in 1 .. Len(e.payload) : a = body + 4 * (k - 1)
      BY <2>2 DEF PayloadCells
    <3>2. QED
      BY <1>1, <3>1
  <2>3. QED
    BY <1>2, <2>1, <2>2, <2>4
<1>8. QED
  BY <1>4, <1>5, <1>6, <1>7 DEF body, file

-----------------------------------------------------------------------------
(* The reader.                                                             *)

\* The payload begins where the writer put it, the label being counted in.
LEMMA SamePayloadStart ==
  ASSUME NEW start \in Nat, start % 32 = 0, NEW n \in Nat
  PROVE  AlignPaddr(start + HeaderSize + n, 32) = start + Align(HeaderSize + n, PakAlignment)
<1>1. (start + (32 + n)) % 32 = (32 + n) % 32
  OBVIOUS
<1>2. start + 32 + n = start + (32 + n) /\ (32 + n) % 32 \in 0 .. 31
  OBVIOUS
<1>3. QED
  BY <1>1, <1>2 DEF AlignPaddr, Align, HeaderSize, PakAlignment

\* At a pak, the reader sees what was written.
LEMMA PakIsRead ==
  ASSUME FlashAssumption, Tiled, Stored, NEW n \in 1 .. Len(image)
  PROVE  LET e == image[n]
         IN /\ CheckPak(e.start)
            /\ CopiedLabel(e.start) = Kept(e.label)
            /\ PakAt(e.start) = [length |-> WriterLength(e), size |-> PayloadLength(e),
                                 start |-> e.start + WriterHeaderSize(e)]
            /\ \A k \in 1 .. Len(e.payload) :
                 Read(e.start + WriterHeaderSize(e) + 4 * (k - 1)) = e.payload[k]
<1>0. PICK e \in Paks : e = image[n]
  BY DEF Tiled
<1> DEFINE s == e.start
           file == PakFile(e, s)
<1>1. Len(e.label) \in Nat /\ Len(e.payload) \in Nat /\ s \in Nat /\ s % 32 = 0
  BY <1>0 DEF Tiled, Paks
<1>2. \A a \in DOMAIN file : Read(a) = file[a]
  BY <1>0 DEF Stored, Read
<1> HIDE DEF s, file
<1>3. /\ \A k \in 0 .. 7 : Read(s + 4 * k) = HeaderWords(e)[k]
      /\ Read(s + 32) = e.label
      /\ \A k \in 1 .. Len(e.payload) :
           Read(s + WriterHeaderSize(e) + 4 * (k - 1)) = e.payload[k]
  <2>1. /\ \A k \in 0 .. 7 : s + 4 * k \in DOMAIN file
                               /\ file[s + 4 * k] = HeaderWords(e)[k]
        /\ s + 32 \in DOMAIN file /\ file[s + 32] = e.label
        /\ \A k \in 1 .. Len(e.payload) :
             /\ s + WriterHeaderSize(e) + 4 * (k - 1) \in DOMAIN file
             /\ file[s + WriterHeaderSize(e) + 4 * (k - 1)] = e.payload[k]
    <3>0. Len(e.label) \in Nat /\ Len(e.payload) \in Nat /\ s \in Nat
      BY <1>1
    <3>1. \A k \in 0 .. 7 : s + 4 * k \in DOMAIN PakFile(e, s)
                             /\ PakFile(e, s)[s + 4 * k] = HeaderWords(e)[k]
      BY <3>0, FileCells, Zenon
    <3>3. s + 32 \in DOMAIN PakFile(e, s) /\ PakFile(e, s)[s + 32] = e.label
      BY <3>0, FileCells, Zenon
    <3>4. \A k \in 1 .. Len(e.payload) :
             /\ s + WriterHeaderSize(e) + 4 * (k - 1) \in DOMAIN PakFile(e, s)
             /\ PakFile(e, s)[s + WriterHeaderSize(e) + 4 * (k - 1)] = e.payload[k]
      BY <3>0, FileCells, Zenon
    <3>2. QED
      BY <3>1, <3>3, <3>4 DEF file
  <2>2. \A k \in 0 .. 7 : Read(s + 4 * k) = HeaderWords(e)[k]
    BY <1>2, <2>1
  <2>3. Read(s + 32) = e.label
    BY <1>2, <2>1
  <2>4. \A k \in 1 .. Len(e.payload) :
           Read(s + WriterHeaderSize(e) + 4 * (k - 1)) = e.payload[k]
    BY <1>2, <2>1, Zenon
  <2>5. QED
    BY <2>2, <2>3, <2>4
<1>4. HeaderAt(s) = [length |-> WriterLength(e), alignment |-> 32,
                     namelength |-> Len(e.label), payload_length |-> PayloadLength(e)]
  <2>1. Read(s + 12) = HeaderWords(e)[3] /\ Read(s + 16) = HeaderWords(e)[4]
        /\ Read(s + 20) = HeaderWords(e)[5] /\ Read(s + 24) = HeaderWords(e)[6]
    <3>1. Read(s + 4 * 3) = HeaderWords(e)[3] /\ Read(s + 4 * 4) = HeaderWords(e)[4]
          /\ Read(s + 4 * 5) = HeaderWords(e)[5] /\ Read(s + 4 * 6) = HeaderWords(e)[6]
      BY <1>3
    <3>2. QED
      BY <3>1
  <2>2. QED
    BY <2>1 DEF HeaderAt, HeaderWords, PakAlignment
<1>5. CheckPak(s)
  <2>1. Read(s + 4 * 0) = HeaderWords(e)[0]
    BY <1>3
  <2>2. QED
    BY <1>1, <2>1 DEF CheckPak, HeaderWords
<1>6. CopiedLabel(s) = Kept(e.label)
  <2>1. Read(s + HeaderSize) = e.label
    BY <1>3 DEF HeaderSize
  <2>2. HeaderAt(s).namelength = Len(e.label)
    BY <1>4
  <2>3. QED
    BY <2>1, <2>2 DEF CopiedLabel, Kept
<1>7. PayloadStart(s) = s + WriterHeaderSize(e)
  <2>1. HeaderAt(s).namelength = Len(e.label) /\ HeaderAt(s).alignment = 32
    BY <1>4
  <2>2. QED
    BY <1>1, <2>1, SamePayloadStart DEF PayloadStart, WriterHeaderSize
<1>8. PakAt(s) = [length |-> WriterLength(e), size |-> PayloadLength(e),
                  start |-> s + WriterHeaderSize(e)]
  BY <1>4, <1>7 DEF PakAt
<1>9. QED
  BY <1>0, <1>3, <1>5, <1>6, <1>8 DEF s

\* Behind the last pak there is none.
\* Behind the last pak flash is erased, which is no magic: both walks stop there.
LEMMA EndIsNoPak ==
  ASSUME FlashAssumption, Tiled, Stored
  PROVE  ~CheckPak(end)
BY DEF FlashAssumption, Tiled, Stored, CheckPak, Read

\* The comparison over the length of the name asks for a prefix.
LEMMA MatchesIsPrefix ==
  ASSUME FlashAssumption, NEW wanted \in Names \cup {<< >>},
         NEW label, Len(label) \in Nat
  PROVE  Matches(wanted, Kept(label)) <=> BeginsWith(Kept(label), wanted)
<1>1. Len(wanted) \in Nat
  BY DEF FlashAssumption
<1>2. Len(Kept(label)) \in Nat
  BY DEF Kept, FlashAssumption
<1>3. QED
  BY <1>1, <1>2 DEF Matches, BeginsWith

-----------------------------------------------------------------------------
(* The image and the reader, step by step.                                 *)

\* Every place the walk can be at is in the span.
LEMMA PlacesInSpan ==
  ASSUME FlashAssumption, Tiled
  PROVE  /\ Len(image) \in Nat
         /\ \A n \in 1 .. Len(image) + 1 :
              StartOf(n) \in SpanStart .. end /\ StartOf(n) <= SpanStart + SpanSize
         /\ \A n \in 1 .. Len(image) : StartOf(n) = image[n].start
         /\ StartOf(Len(image) + 1) = end
<1>1. Len(image) \in Nat /\ SpanStart \in Nat /\ SpanSize \in Nat
  BY DEF Tiled, FlashAssumption
<1>2. QED
  BY <1>1 DEF Tiled, StartOf

\* Before the host has written anything.
LEMMA FlashInitInv == FlashAssumption /\ FlashInit => FlashInv
<1> SUFFICES ASSUME FlashAssumption, FlashInit PROVE FlashInv
  OBVIOUS
<1>1. image = << >> /\ image \in Seq(Paks) /\ Len(image) = 0
  BY DEF FlashInit
<1>2. Tiled
  <2>1. SpanStart % 32 = 0 /\ end = SpanStart /\ SpanStart \in Nat /\ SpanSize \in Nat /\ MaxPaks \in Nat
    BY DEF FlashInit, FlashAssumption, PakAlignment
  <2>2. StartOf(1) = SpanStart
    BY <1>1, <2>1 DEF StartOf
  <2>3. QED
    BY <1>1, <2>1, <2>2 DEF Tiled
<1>3. Stored
  BY <1>1 DEF Stored, FlashInit
<1>4. Walking
  BY DEF Walking, FlashInit, NoPak
<1>5. QED
  BY <1>2, <1>3, <1>4 DEF FlashInv

\* Writing a pak behind the others leaves them as they are.
\* A pak is appended: it begins aligned, where the last one's length leads to,
\* and overwrites nothing.
LEMMA AddPakInv == FlashAssumption /\ FlashInv /\ AddPak => FlashInv'
<1> SUFFICES ASSUME FlashAssumption, FlashInv, AddPak PROVE FlashInv'
  OBVIOUS
<1>0. PICK e \in Entries :
         /\ flash' = [a \in DOMAIN flash \cup DOMAIN PakFile(e, end) |->
                        IF a \in DOMAIN PakFile(e, end) THEN PakFile(e, end)[a] ELSE flash[a]]
         /\ image' = Append(image, [start |-> end, label |-> e.label, payload |-> e.payload])
         /\ end' = end + WriterHeaderSize(e) + WriterPayloadSize(e)
         /\ end' <= SpanStart + SpanSize
  BY DEF AddPak
<1> DEFINE new == [start |-> end, label |-> e.label, payload |-> e.payload]
           file == PakFile(e, end)
           N == Len(image)
<1>1. /\ image \in Seq(Paks) /\ N \in Nat /\ N + 1 <= MaxPaks
      /\ end \in Nat /\ end % 32 = 0 /\ SpanStart \in Nat /\ SpanStart <= end
  BY DEF FlashInv, Tiled, AddPak, FlashAssumption
<1>2. /\ Len(e.label) \in Nat /\ Len(e.payload) \in Nat /\ new \in Paks
  BY <1>1 DEF FlashAssumption, Paks
<1>3. /\ WriterLength(e) = WriterHeaderSize(e) + WriterPayloadSize(e)
      /\ WriterLength(e) % 32 = 0 /\ WriterLength(e) \in Nat
      /\ WriterHeaderSize(e) \in Nat /\ WriterPayloadSize(e) \in Nat
  <2>1. /\ WriterLength(e) = WriterHeaderSize(e) + WriterPayloadSize(e)
        /\ WriterLength(e) % 32 = 0
        /\ WriterHeaderSize(e) \in Nat /\ WriterPayloadSize(e) \in Nat
    BY <1>2, LengthIsWritten, Zenon
  <2>2. QED
    BY <2>1
<1>4. end' = end + WriterLength(e) /\ end' % 32 = 0 /\ end' \in SpanStart .. SpanStart + SpanSize
      /\ end' \in Nat /\ end <= end'
  <2>1. end' = end + WriterLength(e)
    <3>1. end' = end + WriterHeaderSize(e) + WriterPayloadSize(e)
      BY <1>0
    <3>2. QED
      BY <1>1, <1>3, <3>1
  <2>2. (end + WriterLength(e)) % 32 = 0
    BY <1>1, <1>3, SumAligned
  <2>3. QED
    <3>1. end' <= SpanStart + SpanSize
      BY <1>0
    <3>2. end + WriterLength(e) \in Nat /\ SpanStart + SpanSize \in Nat
      BY <1>1, <1>3 DEF FlashAssumption
    <3>3. end' \in Nat /\ end' % 32 = 0
      BY <2>1, <2>2, <3>2
    <3>4. SpanStart <= end' /\ end <= end'
      <4>1. WriterLength(e) \in Nat
        BY <1>3
      <4>2. end \in Nat /\ SpanStart \in Nat /\ SpanStart <= end
        BY <1>1
      <4>3. QED
        BY <2>1, <4>1, <4>2
    <3>5. QED
      BY <1>1, <2>1, <3>1, <3>2, <3>3, <3>4
<1>5. /\ image' \in Seq(Paks) /\ Len(image') = N + 1
      /\ \A n \in 1 .. N : image'[n] = image[n]
      /\ image'[N + 1] = new
  BY <1>0, <1>1, <1>2
<1>6. WriterLength(new) = WriterLength(e) /\ PakFile(new, end) = file
  BY DEF WriterLength, PakFile, HeaderWords, PayloadCells, WriterHeaderSize, PayloadLength
<1>7. Tiled'
  <2>1. StartOf(1)' = SpanStart
    <3>1. CASE N = 0
      BY <1>1, <1>5, <3>1 DEF StartOf, FlashInv, Tiled
    <3>2. CASE N # 0
      BY <1>1, <1>5, <3>2 DEF StartOf, FlashInv, Tiled
    <3>3. QED
      BY <3>1, <3>2
  <2>2. ASSUME NEW n \in 1 .. Len(image')
        PROVE  /\ StartOf(n + 1)' = image'[n].start + WriterLength(image'[n])
               /\ image'[n].start % 32 = 0 /\ image'[n].start \in SpanStart .. end'
    <3>1. CASE n = N + 1
      <4>1. StartOf(n + 1)' = end'
        BY <1>1, <1>5, <3>1 DEF StartOf
      <4>2. image'[n] = new /\ image'[n].start = end
        BY <1>5, <3>1
      <4>3. QED
        BY <1>1, <1>4, <1>6, <4>1, <4>2
    <3>2. CASE n \in 1 .. N
      <4>1. image'[n] = image[n]
        BY <1>5, <3>2
      <4>2. /\ StartOf(n + 1) = image[n].start + WriterLength(image[n])
            /\ image[n].start % 32 = 0 /\ image[n].start \in SpanStart .. end
        BY <3>2 DEF FlashInv, Tiled
      <4>3. StartOf(n + 1)' = StartOf(n + 1)
        <5>1. CASE n = N
          BY <1>1, <1>5, <5>1 DEF StartOf
        <5>2. CASE n + 1 \in 1 .. N
          BY <1>1, <1>5, <5>2 DEF StartOf
        <5>3. QED
          BY <1>1, <3>2, <5>1, <5>2
      <4>4. image'[n].start \in SpanStart .. end'
        <5>1. image[n].start \in SpanStart .. end /\ end <= end' /\ end \in Nat /\ end' \in Nat
              /\ SpanStart \in Nat
          BY <1>1, <1>4, <4>2
        <5>2. QED
          BY <4>1, <5>1
      <4>5. QED
        BY <4>1, <4>2, <4>3, <4>4
    <3>3. QED
      BY <1>1, <1>5, <3>1, <3>2
  <2>3. QED
    BY <1>1, <1>4, <1>5, <2>1, <2>2 DEF Tiled
<1>8. Stored'
  <2>1. \A a \in DOMAIN file : a \in end .. end' - 1
    <3>1. \A a \in DOMAIN file : a \in end .. end + WriterLength(e) - 1
      BY <1>1, <1>2, FileCells, Zenon
    <3>2. QED
      <4>1. end' = end + WriterLength(e)
        BY <1>4
      <4>2. end \in Nat /\ WriterLength(e) \in Nat
        BY <1>1, <1>3
      <4>3. QED
        BY <3>1, <4>1, <4>2
  <2>2. /\ DOMAIN flash' = DOMAIN flash \cup DOMAIN file
        /\ \A a \in DOMAIN file : flash'[a] = file[a]
        /\ \A a \in DOMAIN flash \ DOMAIN file : flash'[a] = flash[a]
    BY <1>0
  <2> HIDE DEF file
  <2>3. \A a \in DOMAIN flash' : a \in SpanStart .. end' - 1
    <3>1. /\ end \in Nat /\ end' \in Nat /\ end <= end'
          /\ SpanStart \in Nat /\ SpanStart <= end
      BY <1>1, <1>4
    <3>2. \A a \in DOMAIN flash : a \in SpanStart .. end - 1
      BY DEF FlashInv, Stored
    <3>3. QED
      BY <2>1, <2>2, <3>1, <3>2
  <2>4. ASSUME NEW n \in 1 .. Len(image'),
               NEW a \in DOMAIN PakFile(image'[n], image'[n].start)
        PROVE  a \in DOMAIN flash' /\ flash'[a] = PakFile(image'[n], image'[n].start)[a]
    <3>1. CASE n = N + 1
      <4>1. PakFile(image'[n], image'[n].start) = file
        BY <1>5, <1>6, <3>1
      <4>2. QED
        BY <2>2, <4>1
    <3>2. CASE n \in 1 .. N
      <4>1. image'[n] = image[n]
        BY <1>5, <3>2
      <4>2. a \in DOMAIN flash /\ flash[a] = PakFile(image[n], image[n].start)[a]
        BY <3>2, <4>1 DEF FlashInv, Stored
      <4>3. a \notin DOMAIN file
        BY <1>1, <1>4, <2>1, <4>2 DEF FlashInv, Stored
      <4>4. a \in DOMAIN flash' /\ flash'[a] = flash[a]
        <5>1. a \in DOMAIN flash \ DOMAIN file
          BY <4>2, <4>3
        <5>2. QED
          BY <2>2, <5>1
      <4>5. QED
        BY <4>1, <4>2, <4>4
    <3>3. QED
      BY <1>1, <1>5, <3>1, <3>2
  <2>5. QED
    BY <2>3, <2>4 DEF Stored
<1>9. Walking'
  BY DEF AddPak, FlashInv, Walking
<1>10. QED
  BY <1>7, <1>8, <1>9 DEF FlashInv

\* The steps of the reader leave the flash as it is.
\* The device does not write to flash.
LEMMA SameFlash ==
  ASSUME Tiled, Stored, UNCHANGED <<flash, image, end>>
  PROVE  Tiled' /\ Stored' /\ \A n : StartOf(n)' = StartOf(n)
BY DEF Tiled, Stored, StartOf

\* The reader starts at the first pak, or at the end of an empty image.
LEMMA SpanInitInv == FlashAssumption /\ FlashInv /\ SpanInit => FlashInv'
<1> SUFFICES ASSUME FlashAssumption, FlashInv, SpanInit PROVE FlashInv'
  OBVIOUS
<1>1. Tiled' /\ Stored' /\ \A n : StartOf(n)' = StartOf(n)
  BY SameFlash DEF FlashInv, SpanInit
<1>2. Walking'
  <2>1. 1 \in 1 .. Len(image) + 1 /\ StartOf(1) = SpanStart
    BY PlacesInSpan DEF FlashInv, Tiled
  <2>2. \E n \in 1 .. Len(image') + 1 : cursor' = StartOf(n)'
    BY <1>1, <2>1 DEF SpanInit
  <2>3. QED
    BY <2>2 DEF SpanInit, Walking, FlashInv, FlashAssumption
<1>3. QED
  BY <1>1, <1>2 DEF FlashInv

\* From a pak, its length leads to the next place, and the walk goes on.
\* The length in a pak's header leads to the next pak, or to the end.
LEMMA NextPlace ==
  ASSUME FlashAssumption, Tiled, Stored, NEW n \in 1 .. Len(image)
  PROVE  /\ image[n].start + PakAt(image[n].start).length = StartOf(n + 1)
         /\ n + 1 \in 1 .. Len(image) + 1
         /\ StartOf(n + 1) \in Nat /\ ~(StartOf(n + 1) > SpanStart + SpanSize)
<1>1. PakAt(image[n].start).length = WriterLength(image[n])
  <2>1. PakAt(image[n].start) =
          [length |-> WriterLength(image[n]), size |-> PayloadLength(image[n]),
           start |-> image[n].start + WriterHeaderSize(image[n])]
    BY PakIsRead, Zenon
  <2>2. QED
    BY <2>1
<1>2. n + 1 \in 1 .. Len(image) + 1
  BY PlacesInSpan
<1>3. StartOf(n + 1) \in SpanStart .. end /\ StartOf(n + 1) <= SpanStart + SpanSize
  BY <1>2, PlacesInSpan
<1>4. end \in Nat /\ SpanStart \in Nat /\ SpanSize \in Nat
  BY DEF Tiled, FlashAssumption
<1>5. QED
  BY <1>1, <1>2, <1>3, <1>4 DEF Tiled

\* A round of the first walk goes from a pak to the next, or stops.
LEMMA InitStepInv == FlashAssumption /\ FlashInv /\ InitStep => FlashInv'
<1> SUFFICES ASSUME FlashAssumption, FlashInv, InitStep PROVE FlashInv'
  OBVIOUS
<1>1. Tiled' /\ Stored' /\ \A n : StartOf(n)' = StartOf(n)
  BY SameFlash DEF FlashInv, InitStep
<1>2. PICK n \in 1 .. Len(image) + 1 : cursor = StartOf(n)
  BY DEF FlashInv, Walking, InitStep
<1>3. span = [setup |-> TRUE, start |-> SpanStart, end |-> SpanStart + SpanSize]
  BY DEF FlashInv, Walking, InitStep
<1>4. CASE n \in 1 .. Len(image)
  <2>1. cursor = image[n].start
    BY <1>2, <1>4, PlacesInSpan DEF FlashInv
  <2>2. CheckPak(cursor)
    BY <1>4, <2>1, PakIsRead, Zenon DEF FlashInv
  <2>3. cursor' = StartOf(n + 1) /\ n + 1 \in 1 .. Len(image) + 1
        /\ StartOf(n + 1) \in Nat /\ ~(StartOf(n + 1) > span.end)
    <3>1. cursor' = cursor + PakAt(cursor).length
      BY <2>2 DEF InitStep
    <3>2. QED
      BY <1>3, <1>4, <2>1, <3>1, NextPlace DEF FlashInv
  <2>4. pc' = "init"
    BY <2>2, <2>3 DEF InitStep
  <2>5. \E m \in 1 .. Len(image') + 1 : cursor' = StartOf(m)'
    BY <1>1, <2>3 DEF InitStep
  <2>6. Walking'
    BY <2>3, <2>4, <2>5 DEF InitStep, Walking, FlashInv
  <2>7. QED
    BY <1>1, <2>6 DEF FlashInv
<1>5. CASE n = Len(image) + 1
  <2>1. ~CheckPak(cursor)
    BY <1>2, <1>5, PlacesInSpan, EndIsNoPak DEF FlashInv
  <2>2. pc' = "ready" /\ UNCHANGED cursor
    BY <2>1 DEF InitStep
  <2>3. Walking'
    BY <2>2 DEF InitStep, Walking, FlashInv
  <2>4. QED
    BY <1>1, <2>3 DEF FlashInv
<1>6. QED
  BY <1>4, <1>5, PlacesInSpan DEF FlashInv

\* A lookup begins at the first pak, having passed none.
LEMMA LookupInv == FlashAssumption /\ FlashInv /\ Lookup => FlashInv'
<1> SUFFICES ASSUME FlashAssumption, FlashInv, Lookup PROVE FlashInv'
  OBVIOUS
<1>1. Tiled' /\ Stored' /\ \A n : StartOf(n)' = StartOf(n)
  BY SameFlash DEF FlashInv, Lookup
<1>2. span = [setup |-> TRUE, start |-> SpanStart, end |-> SpanStart + SpanSize]
  BY DEF FlashInv, Walking, Lookup
<1>3. 1 \in 1 .. Len(image) + 1 /\ StartOf(1) = SpanStart
  BY PlacesInSpan DEF FlashInv, Tiled
<1>4. \E n \in 1 .. Len(image') + 1 :
        /\ cursor' = StartOf(n)'
        /\ \A m \in 1 .. n - 1 : ~BeginsWith(Kept(image'[m].label), name')
  <2>1. cursor' = StartOf(1)' /\ 1 \in 1 .. Len(image') + 1
    BY <1>1, <1>2, <1>3 DEF Lookup
  <2>2. QED
    BY <2>1
<1>5. Walking'
  <2>1. \E n \in 1 .. Len(image') + 1 :
        /\ cursor' = StartOf(n)'
        /\ \A m \in 1 .. n - 1 : ~BeginsWith(Kept(image[m].label), name)'
    BY <1>4 DEF BeginsWith, Kept
  <2>2. QED
    BY <1>2, <2>1 DEF Lookup, Walking, FlashInv, FlashAssumption
<1>6. QED
  BY <1>1, <1>5 DEF FlashInv

\* A round of the lookup stops at the first pak that matches, or passes one
\* that does not.
LEMMA LookupStepInv == FlashAssumption /\ FlashInv /\ LookupStep => FlashInv'
<1> SUFFICES ASSUME FlashAssumption, FlashInv, LookupStep PROVE FlashInv'
  OBVIOUS
<1>1. Tiled' /\ Stored' /\ \A n : StartOf(n)' = StartOf(n)
  BY SameFlash DEF FlashInv, LookupStep
<1>2. PICK n \in 1 .. Len(image) + 1 :
        /\ cursor = StartOf(n)
        /\ \A m \in 1 .. n - 1 : ~BeginsWith(Kept(image[m].label), name)
  BY DEF FlashInv, Walking, LookupStep
<1>3. /\ span = [setup |-> TRUE, start |-> SpanStart, end |-> SpanStart + SpanSize]
      /\ name \in Names \cup {<< >>} /\ Len(image) \in Nat
  BY PlacesInSpan DEF FlashInv, Walking, LookupStep
<1>4. CASE n \in 1 .. Len(image)
  <2> DEFINE e == image[n]
  <2>1. cursor = e.start /\ e.start \in Nat /\ e \in Paks
    <3>1. cursor = e.start
      BY <1>2, <1>4 DEF StartOf
    <3>2. e \in Paks
      BY <1>4 DEF FlashInv, Tiled
    <3>3. QED
      BY <3>1, <3>2 DEF Paks
  <2>2. /\ CheckPak(e.start)
        /\ CopiedLabel(e.start) = Kept(e.label)
        /\ PakAt(e.start) = [length |-> WriterLength(e), size |-> PayloadLength(e),
                             start |-> e.start + WriterHeaderSize(e)]
        /\ \A k \in 1 .. Len(e.payload) :
             Read(e.start + WriterHeaderSize(e) + 4 * (k - 1)) = e.payload[k]
    BY <1>4, PakIsRead, Zenon DEF FlashInv
  <2>3. /\ Matches(name, CopiedLabel(cursor)) <=> BeginsWith(Kept(e.label), name)
    <3>1. Len(e.label) \in Nat
      BY <2>1 DEF Paks
    <3>2. Matches(name, Kept(e.label)) <=> BeginsWith(Kept(e.label), name)
      BY <1>3, <3>1, MatchesIsPrefix
    <3>3. QED
      BY <2>1, <2>2, <3>2
  <2>4. pak' = [length |-> WriterLength(e), size |-> PayloadLength(e),
                start |-> e.start + WriterHeaderSize(e)]
    BY <2>1, <2>2 DEF LookupStep
  <2>5. pak' \in [length : Nat, start : Nat, size : Nat]
    <3>1. Len(e.label) \in Nat /\ Len(e.payload) \in Nat
      BY <2>1 DEF Paks
    <3>2. /\ WriterLength(e) = WriterHeaderSize(e) + WriterPayloadSize(e)
          /\ WriterHeaderSize(e) \in Nat /\ WriterPayloadSize(e) \in Nat
          /\ PayloadLength(e) \in Nat
      BY <3>1, LengthIsWritten, Zenon
    <3>3. QED
      BY <2>1, <2>4, <3>2
  <2>6. CASE Matches(name, CopiedLabel(cursor))
    <3>1. pc' = "found" /\ UNCHANGED <<cursor, name, image, flash, span, end>>
      BY <2>1, <2>2, <2>6 DEF LookupStep
    <3>2. FoundAt(n)'
      <4>1. BeginsWith(Kept(image'[n].label), name')
        BY <2>3, <2>6, <3>1
      <4>2. \A m \in 1 .. n - 1 : ~BeginsWith(Kept(image'[m].label), name')
        BY <1>2, <3>1
      <4>3. pak'.size = PayloadLength(image'[n])
        BY <2>4, <3>1
      <4>4. \A a : Read(a)' = Read(a)
        BY <3>1 DEF Read
      <4>5. \A k \in 1 .. Len(image'[n].payload) :
              Read(pak'.start + 4 * (k - 1)) = image'[n].payload[k]
        <5>1. pak'.start = e.start + WriterHeaderSize(e) /\ image'[n] = e
          BY <2>4, <3>1
        <5>2. QED
          BY <2>2, <5>1, Zenon
      <4>6. /\ BeginsWith(Kept(image[n].label), name)'
            /\ \A m \in 1 .. n - 1 : ~BeginsWith(Kept(image[m].label), name)'
            /\ \A k \in 1 .. Len(image'[n].payload) :
                 Read(pak.start + 4 * (k - 1))' = image'[n].payload[k]
        BY <4>1, <4>2, <4>4, <4>5
      <4>7. QED
        BY <4>3, <4>6 DEF FoundAt
    <3>3. n \in 1 .. Len(image') /\ cursor' = image'[n].start
      BY <1>4, <2>1, <3>1
    <3>4. Walking'
      BY <2>5, <3>1, <3>2, <3>3 DEF Walking, FlashInv, LookupStep
    <3>5. QED
      BY <1>1, <3>4 DEF FlashInv
  <2>7. CASE ~Matches(name, CopiedLabel(cursor))
    <3>1. cursor' = NextPak(cursor) /\ UNCHANGED <<name, image, flash, span, end>>
      BY <2>1, <2>2, <2>7 DEF LookupStep
    <3>2. cursor' = StartOf(n + 1) /\ n + 1 \in 1 .. Len(image) + 1
          /\ StartOf(n + 1) \in Nat /\ ~(StartOf(n + 1) > span.end)
      BY <1>3, <1>4, <2>1, <3>1, NextPlace DEF FlashInv, NextPak
    <3>3. pc' = "lookup"
      BY <2>1, <2>2, <2>7, <3>1, <3>2 DEF LookupStep
    <3>4. \A m \in 1 .. (n + 1) - 1 : ~BeginsWith(Kept(image[m].label), name)
      <4>1. \A m \in 1 .. (n + 1) - 1 : m \in 1 .. n - 1 \/ m = n
        OBVIOUS
      <4>2. ~BeginsWith(Kept(image[n].label), name)
        BY <2>3, <2>7
      <4>3. QED
        BY <1>2, <4>1, <4>2
    <3>5. \E m \in 1 .. Len(image') + 1 :
            /\ cursor' = StartOf(m)'
            /\ \A j \in 1 .. m - 1 : ~BeginsWith(Kept(image[j].label), name)'
      <4>1. \A j : BeginsWith(Kept(image[j].label), name)'
                     = BeginsWith(Kept(image[j].label), name)
        BY <3>1 DEF BeginsWith, Kept
      <4>2. n + 1 \in 1 .. Len(image') + 1 /\ cursor' = StartOf(n + 1)'
        BY <1>1, <3>1, <3>2
      <4>3. QED
        BY <3>4, <4>1, <4>2
    <3>6. Walking'
      BY <2>5, <3>1, <3>2, <3>3, <3>5 DEF Walking, FlashInv, LookupStep
    <3>7. QED
      BY <1>1, <3>6 DEF FlashInv
  <2>8. QED
    BY <2>6, <2>7
<1>5. CASE n = Len(image) + 1
  <2>1. ~CheckPak(cursor)
    BY <1>2, <1>5, PlacesInSpan, EndIsNoPak DEF FlashInv
  <2>2. pc' = "missing" /\ UNCHANGED <<cursor, pak, name, image, span>>
    BY <2>1 DEF LookupStep
  <2>3. \A m \in 1 .. Len(image) : ~BeginsWith(Kept(image[m].label), name)
    BY <1>2, <1>3, <1>5
  <2>4. \A m \in 1 .. Len(image') : ~BeginsWith(Kept(image[m].label), name)'
    <3>1. \A j : BeginsWith(Kept(image[j].label), name)'
                   = BeginsWith(Kept(image[j].label), name)
      BY <2>2 DEF BeginsWith, Kept
    <3>2. QED
      BY <2>2, <2>3, <3>1
  <2>5. Walking'
    BY <2>2, <2>4 DEF Walking, FlashInv, LookupStep
  <2>6. QED
    BY <1>1, <2>5 DEF FlashInv
<1>6. QED
  BY <1>2, <1>3, <1>4, <1>5

\* What others do changes nothing of it.
LEMMA FlashStutterInv == FlashAssumption /\ FlashInv /\ UNCHANGED flashVars => FlashInv'
<1> SUFFICES ASSUME FlashAssumption, FlashInv, UNCHANGED flashVars PROVE FlashInv'
  OBVIOUS
<1>1. Tiled' /\ Stored' /\ \A n : StartOf(n)' = StartOf(n)
  BY SameFlash DEF FlashInv, flashVars
<1>2. Walking'
  <2>1. \A n : FoundAt(n)' = FoundAt(n)
    BY DEF flashVars, FoundAt, Read, BeginsWith
  <2>2. \A m : BeginsWith(Kept(image[m].label), name)' = BeginsWith(Kept(image[m].label), name)
    BY DEF flashVars, BeginsWith, Kept
  <2>3. QED
    BY <1>1, <2>1, <2>2 DEF FlashInv, Walking, flashVars
<1>3. QED
  BY <1>1, <1>2 DEF FlashInv

\* Every step keeps the invariant.
LEMMA FlashStepInv == FlashAssumption /\ FlashInv /\ FlashNext => FlashInv'
BY AddPakInv, SpanInitInv, InitStepInv, LookupInv, LookupStepInv DEF FlashNext

\* The invariant is stronger than what the run checks of the reader.
LEMMA FlashInvImplies == FlashAssumption /\ FlashInv => FlashTypeOK /\ WalkOnPaks /\ LookupFinds
<1> SUFFICES ASSUME FlashAssumption, FlashInv PROVE FlashTypeOK /\ WalkOnPaks /\ LookupFinds
  OBVIOUS
<1>1. FlashTypeOK
  <2>1. \A a \in DOMAIN flash : a \in SpanStart .. end
    BY DEF FlashInv, Stored, Tiled, FlashAssumption
  <2>2. Len(image) \in 0 .. MaxPaks
    BY PlacesInSpan DEF FlashInv, Tiled, FlashAssumption
  <2>3. QED
    BY <2>1, <2>2 DEF FlashInv, Tiled, Walking, FlashTypeOK
<1>2. WalkOnPaks
  <2> SUFFICES ASSUME pc \in {"init", "lookup", "found"}
               PROVE  /\ cursor \in {image[n].start : n \in 1 .. Len(image)} \cup {end}
                      /\ cursor <= span.end
    BY DEF WalkOnPaks
  <2>1. PICK n \in 1 .. Len(image) + 1 : cursor = StartOf(n)
    BY PlacesInSpan DEF FlashInv, Walking
  <2>2. StartOf(n) <= SpanStart + SpanSize
    BY PlacesInSpan DEF FlashInv
  <2>3. span.end = SpanStart + SpanSize
    BY DEF FlashInv, Walking
  <2>4. QED
    BY <2>1, <2>2, <2>3, PlacesInSpan DEF FlashInv, StartOf
<1>3. LookupFinds
  BY DEF FlashInv, Walking, LookupFinds
<1>4. QED
  BY <1>1, <1>2, <1>3

-----------------------------------------------------------------------------
(* What the two sides promise each other, for every image.                 *)

\* Writer and reader agree on where paks are and what is in them.
THEOREM FlashSpecInv == FlashSpec => []FlashInv
<1>1. FlashInit => FlashInv
  BY FlashAssumption, FlashInitInv
<1>2. FlashInv /\ [FlashNext]_flashVars => FlashInv'
  BY FlashAssumption, FlashStepInv, FlashStutterInv
<1>3. QED
  BY <1>1, <1>2, PTL DEF FlashSpec


-----------------------------------------------------------------------------
(* What the linker writes.                                                 *)

Head14(p) ==
  <<TextAt, SegmentSize(p, "text"), TextAt + 4 * p.entry, 4,
    GotAt(p), 4 * Len(p.symbols), BssAt(p), SegmentSize(p, "bss"),
    DataAt(p), SegmentSize(p, "data"), RodataAt(p), SegmentSize(p, "rodata"), 1024, 1024>>

GotWords(p) == [k \in 1 .. Len(p.symbols) |-> GotWord(p, p.symbols[k])]

\* The numbers of a program.
LEMMA ProgramTypes ==
  ASSUME NEW p \in Programs
  PROVE  /\ p.text \in Seq(Int) /\ p.rodata \in Seq(Int) /\ p.data \in Seq(Int)
         /\ Len(p.text) \in Nat /\ Len(p.rodata) \in Nat /\ Len(p.data) \in Nat
         /\ p.bss \in Nat /\ Len(p.symbols) \in Nat
         /\ p.entry \in Nat /\ p.entry < Len(p.text)
         /\ \A k \in 1 .. Len(p.symbols) :
              /\ p.symbols[k].seg \in Segments /\ p.symbols[k].at \in Nat
         /\ SegmentSize(p, "text") = 4 * Len(p.text)
         /\ SegmentSize(p, "rodata") = 4 * Len(p.rodata)
         /\ SegmentSize(p, "data") = 4 * Len(p.data)
         /\ SegmentSize(p, "bss") = 4 * p.bss
<1>1. /\ p.text \in Seq(Int) /\ p.rodata \in Seq(Int) /\ p.data \in Seq(Int)
      /\ p.bss \in Nat /\ p.entry \in 0 .. Len(p.text) - 1
      /\ p.symbols \in Seq([seg : Segments, at : Nat])
  BY LoadAssumption
<1>2. Len(p.text) \in Nat /\ Len(p.rodata) \in Nat /\ Len(p.data) \in Nat /\ Len(p.symbols) \in Nat
  BY <1>1
<1>3. \A k \in 1 .. Len(p.symbols) : p.symbols[k] \in [seg : Segments, at : Nat]
  BY <1>1, ElementOfSeq
<1>4. \A k \in 1 .. Len(p.symbols) : p.symbols[k].seg \in Segments /\ p.symbols[k].at \in Nat
  BY <1>3
<1>5. /\ SegmentSize(p, "text") = 4 * Len(p.text)
      /\ SegmentSize(p, "rodata") = 4 * Len(p.rodata)
      /\ SegmentSize(p, "data") = 4 * Len(p.data)
      /\ SegmentSize(p, "bss") = 4 * p.bss
  BY DEF SegmentSize
<1>6. p.entry \in Nat /\ p.entry < Len(p.text)
  <2>1. p.entry \in 0 .. Len(p.text) - 1
    BY <1>1
  <2>2. QED
    BY <1>2, <2>1
<1>7. QED
  BY <1>1, <1>2, <1>4, <1>5, <1>6

\* Where the sections begin.
LEMMA Offsets ==
  ASSUME NEW p \in Programs
  PROVE  /\ TextAt = 56 /\ TextAt \in Nat
         /\ RodataAt(p) = 56 + 4 * Len(p.text) /\ RodataAt(p) \in Nat
         /\ DataAt(p) = 56 + 4 * Len(p.text) + 4 * Len(p.rodata) /\ DataAt(p) \in Nat
         /\ GotAt(p) = 56 + 4 * Len(p.text) + 4 * Len(p.rodata) + 4 * Len(p.data)
         /\ GotAt(p) \in Nat
         /\ BssAt(p) = 56 + 4 * Len(p.text) + 4 * Len(p.rodata) + 4 * Len(p.data)
                          + 4 * Len(p.symbols)
         /\ BssAt(p) \in Nat
<1> DEFINE nt == Len(p.text)
           nr == Len(p.rodata)
           nd == Len(p.data)
           ng == Len(p.symbols)
<1>1. nt \in Nat /\ nr \in Nat /\ nd \in Nat /\ ng \in Nat
  BY ProgramTypes
<1>2. /\ SegmentSize(p, "text") = 4 * nt
      /\ SegmentSize(p, "rodata") = 4 * nr
      /\ SegmentSize(p, "data") = 4 * nd
  BY ProgramTypes
<1>3. TextAt = 56
  BY DEF TextAt, HeaderWordsOfProgram
<1>4. RodataAt(p) = 56 + 4 * nt
  BY <1>2, <1>3, Zenon DEF RodataAt
<1>5. DataAt(p) = 56 + 4 * nt + 4 * nr
  BY <1>2, <1>4, Zenon DEF DataAt
<1>6. GotAt(p) = 56 + 4 * nt + 4 * nr + 4 * nd
  BY <1>2, <1>5, Zenon DEF GotAt
<1>7. BssAt(p) = 56 + 4 * nt + 4 * nr + 4 * nd + 4 * ng
  BY <1>6, Zenon DEF BssAt
<1> HIDE DEF nt, nr, nd, ng
<1>8. /\ TextAt \in Nat /\ RodataAt(p) \in Nat /\ DataAt(p) \in Nat
      /\ GotAt(p) \in Nat /\ BssAt(p) \in Nat
  BY <1>1, <1>3, <1>4, <1>5, <1>6, <1>7
<1>9. QED
  BY <1>3, <1>4, <1>5, <1>6, <1>7, <1>8, Zenon DEF nt, nr, nd, ng

\* A GOT entry before it is relocated.
LEMMA GotWordsTyped ==
  ASSUME NEW p \in Programs
  PROVE  /\ GotWords(p) \in Seq(Int) /\ Len(GotWords(p)) = Len(p.symbols)
         /\ \A k \in 1 .. Len(p.symbols) :
              GotWords(p)[k] = LinkedAt(p, p.symbols[k].seg) + 4 * p.symbols[k].at
<1>1. ASSUME NEW k \in 1 .. Len(p.symbols) PROVE GotWord(p, p.symbols[k]) \in Int
  <2>1. LinkedAt(p, p.symbols[k].seg) \in Nat
    BY Offsets DEF LinkedAt
  <2>2. p.symbols[k].at \in Nat
    BY ProgramTypes
  <2>3. QED
    BY <2>1, <2>2 DEF GotWord
<1>2. Len(p.symbols) \in Nat
  BY ProgramTypes
<1>3. GotWords(p) \in Seq(Int) /\ Len(GotWords(p)) = Len(p.symbols)
  BY <1>1, <1>2 DEF GotWords
<1>4. QED
  BY <1>3 DEF GotWords, GotWord

\* Sections one behind the other.
Cat(s, t) == s \o t

\* Each part is found behind the words of the parts before it.
LEMMA Joined ==
  ASSUME NEW s \in Seq(Int), NEW t \in Seq(Int)
  PROVE  /\ Cat(s, t) \in Seq(Int) /\ Len(Cat(s, t)) = Len(s) + Len(t)
         /\ \A k \in 1 .. Len(s) : Cat(s, t)[k] = s[k]
         /\ \A k \in 1 .. Len(t) : Cat(s, t)[Len(s) + k] = t[k]
<1>1. /\ s \o t \in Seq(Int) /\ Len(s \o t) = Len(s) + Len(t)
      /\ \A k \in 1 .. Len(s) + Len(t) :
           (s \o t)[k] = IF k <= Len(s) THEN s[k] ELSE t[k - Len(s)]
  BY ConcatProperties
<1>2. /\ Cat(s, t) \in Seq(Int) /\ Len(Cat(s, t)) = Len(s) + Len(t)
      /\ \A k \in 1 .. Len(s) + Len(t) :
           Cat(s, t)[k] = IF k <= Len(s) THEN s[k] ELSE t[k - Len(s)]
  BY <1>1, Zenon DEF Cat
<1>3. Len(s) \in Nat /\ Len(t) \in Nat
  OBVIOUS
<1>4. ASSUME NEW k \in 1 .. Len(s) PROVE Cat(s, t)[k] = s[k]
  BY <1>2, <1>3
<1>5. ASSUME NEW k \in 1 .. Len(t) PROVE Cat(s, t)[Len(s) + k] = t[k]
  <2>1. /\ Len(s) + k \in 1 .. Len(s) + Len(t) /\ ~(Len(s) + k <= Len(s))
        /\ (Len(s) + k) - Len(s) = k
    BY <1>3
  <2>2. QED
    BY <1>2, <2>1
<1>6. QED
  BY <1>2, <1>4, <1>5

\* The file is the header and the sections, word for word.
LEMMA LinkedWords ==
  ASSUME NEW p \in Programs
  PROVE  /\ Linked(p) \in Seq(Int)
         /\ Len(Linked(p)) = 14 + Len(p.text) + Len(p.rodata) + Len(p.data)
                               + Len(p.symbols) + p.bss
         /\ \A k \in 1 .. 14 : Linked(p)[k] = Head14(p)[k]
         /\ \A k \in 1 .. Len(p.text) : Linked(p)[14 + k] = p.text[k]
         /\ \A k \in 1 .. Len(p.rodata) : Linked(p)[14 + Len(p.text) + k] = p.rodata[k]
         /\ \A k \in 1 .. Len(p.data) :
              Linked(p)[14 + Len(p.text) + Len(p.rodata) + k] = p.data[k]
         /\ \A k \in 1 .. Len(p.symbols) :
              Linked(p)[14 + Len(p.text) + Len(p.rodata) + Len(p.data) + k] = GotWords(p)[k]
<1> DEFINE nt == Len(p.text)
           nr == Len(p.rodata)
           nd == Len(p.data)
           ng == Len(p.symbols)
           zeros == [k \in 1 .. p.bss |-> 0]
           s1 == Cat(Head14(p), p.text)
           s2 == Cat(s1, p.rodata)
           s3 == Cat(s2, p.data)
           s4 == Cat(s3, GotWords(p))
           s5 == Cat(s4, zeros)
<1>1. Linked(p) = s5
  BY DEF Linked, Head14, GotWords, Cat
<1>0. /\ s1 = Cat(Head14(p), p.text) /\ s2 = Cat(s1, p.rodata) /\ s3 = Cat(s2, p.data)
      /\ s4 = Cat(s3, GotWords(p)) /\ s5 = Cat(s4, zeros)
  OBVIOUS
<1>2. Head14(p) \in Seq(Int) /\ Len(Head14(p)) = 14
  <2>1. /\ TextAt \in Int /\ RodataAt(p) \in Int /\ DataAt(p) \in Int
        /\ GotAt(p) \in Int /\ BssAt(p) \in Int
    <3>1. /\ TextAt \in Nat /\ RodataAt(p) \in Nat /\ DataAt(p) \in Nat
          /\ GotAt(p) \in Nat /\ BssAt(p) \in Nat
      BY Offsets, Zenon
    <3>2. QED
      BY <3>1
  <2>2. /\ SegmentSize(p, "text") \in Int /\ SegmentSize(p, "rodata") \in Int
        /\ SegmentSize(p, "data") \in Int /\ SegmentSize(p, "bss") \in Int
        /\ TextAt + 4 * p.entry \in Int /\ 4 * Len(p.symbols) \in Int
    <3>1. /\ SegmentSize(p, "text") = 4 * Len(p.text)
          /\ SegmentSize(p, "rodata") = 4 * Len(p.rodata)
          /\ SegmentSize(p, "data") = 4 * Len(p.data)
          /\ SegmentSize(p, "bss") = 4 * p.bss
          /\ Len(p.text) \in Nat /\ Len(p.rodata) \in Nat /\ Len(p.data) \in Nat
          /\ p.bss \in Nat /\ p.entry \in Nat /\ Len(p.symbols) \in Nat
      BY ProgramTypes, Zenon
    <3>2. \A x \in Nat : 4 * x \in Int /\ 56 + 4 * x \in Int
      OBVIOUS
    <3>3. QED
      BY <3>1, <3>2, Offsets, Zenon
  <2>3. QED
    BY <2>1, <2>2 DEF Head14
<1>3. zeros \in Seq(Int) /\ Len(zeros) = p.bss
  BY ProgramTypes
<1>4. GotWords(p) \in Seq(Int) /\ Len(GotWords(p)) = ng
  BY GotWordsTyped
<1>5. p.text \in Seq(Int) /\ p.rodata \in Seq(Int) /\ p.data \in Seq(Int)
  BY ProgramTypes
<1>6. nt \in Nat /\ nr \in Nat /\ nd \in Nat /\ ng \in Nat /\ p.bss \in Nat
  BY ProgramTypes
<1>7. Len(p.text) = nt /\ Len(p.rodata) = nr /\ Len(p.data) = nd /\ Len(p.symbols) = ng
  OBVIOUS
<1> HIDE DEF nt, nr, nd, ng, zeros, s1, s2, s3, s4, s5
<1>11. /\ s1 \in Seq(Int) /\ Len(s1) = 14 + nt /\ 14 + nt \in Nat
       /\ \A k \in 1 .. 14 : s1[k] = Head14(p)[k]
       /\ \A k \in 1 .. nt : s1[14 + k] = p.text[k]
  <2>1. /\ s1 \in Seq(Int) /\ Len(s1) = Len(Head14(p)) + Len(p.text)
        /\ \A k \in 1 .. Len(Head14(p)) : s1[k] = Head14(p)[k]
        /\ \A k \in 1 .. Len(p.text) : s1[Len(Head14(p)) + k] = p.text[k]
    BY <1>0, <1>2, <1>5, Joined, Zenon
  <2>2. 14 + nt \in Nat
    BY <1>6
  <2>3. QED
    BY <1>2, <1>5, <1>7, <2>1, <2>2, Zenon
<1>12. /\ s2 \in Seq(Int) /\ Len(s2) = 14 + nt + nr /\ 14 + nt + nr \in Nat
       /\ \A k \in 1 .. 14 + nt : s2[k] = s1[k]
       /\ \A k \in 1 .. nr : s2[14 + nt + k] = p.rodata[k]
  <2>1. /\ s2 \in Seq(Int) /\ Len(s2) = Len(s1) + Len(p.rodata)
        /\ \A k \in 1 .. Len(s1) : s2[k] = s1[k]
        /\ \A k \in 1 .. Len(p.rodata) : s2[Len(s1) + k] = p.rodata[k]
    BY <1>0, <1>11, <1>5, Joined, Zenon
  <2>2. 14 + nt + nr \in Nat
    BY <1>6
  <2>3. QED
    BY <1>11, <1>5, <1>7, <2>1, <2>2, Zenon
<1>13. /\ s3 \in Seq(Int) /\ Len(s3) = 14 + nt + nr + nd /\ 14 + nt + nr + nd \in Nat
       /\ \A k \in 1 .. 14 + nt + nr : s3[k] = s2[k]
       /\ \A k \in 1 .. nd : s3[14 + nt + nr + k] = p.data[k]
  <2>1. /\ s3 \in Seq(Int) /\ Len(s3) = Len(s2) + Len(p.data)
        /\ \A k \in 1 .. Len(s2) : s3[k] = s2[k]
        /\ \A k \in 1 .. Len(p.data) : s3[Len(s2) + k] = p.data[k]
    <3>1. s3 = Cat(s2, p.data) /\ s2 \in Seq(Int) /\ p.data \in Seq(Int)
      BY <1>0, <1>12, <1>5
    <3>2. QED
      BY <3>1, Joined, Zenon
  <2>2. 14 + nt + nr + nd \in Nat
    BY <1>6
  <2>3. QED
    BY <1>12, <1>5, <1>7, <2>1, <2>2, Zenon
<1>14. /\ s4 \in Seq(Int) /\ Len(s4) = 14 + nt + nr + nd + ng
       /\ 14 + nt + nr + nd + ng \in Nat
       /\ \A k \in 1 .. 14 + nt + nr + nd : s4[k] = s3[k]
       /\ \A k \in 1 .. ng : s4[14 + nt + nr + nd + k] = GotWords(p)[k]
  <2>1. /\ s4 \in Seq(Int) /\ Len(s4) = Len(s3) + Len(GotWords(p))
        /\ \A k \in 1 .. Len(s3) : s4[k] = s3[k]
        /\ \A k \in 1 .. Len(GotWords(p)) : s4[Len(s3) + k] = GotWords(p)[k]
    <3>1. s4 = Cat(s3, GotWords(p)) /\ s3 \in Seq(Int) /\ GotWords(p) \in Seq(Int)
      BY <1>0, <1>13, <1>4
    <3>2. QED
      BY <3>1, Joined, Zenon
  <2>2. 14 + nt + nr + nd + ng \in Nat
    BY <1>6
  <2>3. QED
    BY <1>13, <1>4, <1>7, <2>1, <2>2, Zenon
<1>15. /\ s5 \in Seq(Int) /\ Len(s5) = 14 + nt + nr + nd + ng + p.bss
       /\ \A k \in 1 .. 14 + nt + nr + nd + ng : s5[k] = s4[k]
  <2>1. /\ s5 \in Seq(Int) /\ Len(s5) = Len(s4) + Len(zeros)
        /\ \A k \in 1 .. Len(s4) : s5[k] = s4[k]
        /\ \A k \in 1 .. Len(zeros) : s5[Len(s4) + k] = zeros[k]
    <3>1. s5 = Cat(s4, zeros) /\ s4 \in Seq(Int) /\ zeros \in Seq(Int)
      BY <1>0, <1>14, <1>3
    <3>2. QED
      BY <3>1, Joined, Zenon
  <2>2. QED
    BY <1>14, <1>3, <1>7, <2>1, Zenon
<1>16. ASSUME NEW k \in 1 .. 14 PROVE s5[k] = Head14(p)[k]
  <2>1. /\ k \in 1 .. 14 + nt /\ k \in 1 .. 14 + nt + nr
        /\ k \in 1 .. 14 + nt + nr + nd /\ k \in 1 .. 14 + nt + nr + nd + ng
    BY <1>6
  <2>2. QED
    BY <2>1, <1>11, <1>12, <1>13, <1>14, <1>15
<1>17. ASSUME NEW k \in 1 .. nt PROVE s5[14 + k] = p.text[k]
  <2>1. /\ 14 + k \in 1 .. 14 + nt /\ 14 + k \in 1 .. 14 + nt + nr
        /\ 14 + k \in 1 .. 14 + nt + nr + nd /\ 14 + k \in 1 .. 14 + nt + nr + nd + ng
    BY <1>6
  <2>2. s5[14 + k] = s3[14 + k]
    BY <2>1, <1>14, <1>15
  <2>3. s3[14 + k] = s1[14 + k]
    BY <2>1, <1>12, <1>13
  <2>4. QED
    BY <2>2, <2>3, <1>11
<1>18. ASSUME NEW k \in 1 .. nr PROVE s5[14 + nt + k] = p.rodata[k]
  <2>1. /\ 14 + nt + k \in 1 .. 14 + nt + nr
        /\ 14 + nt + k \in 1 .. 14 + nt + nr + nd
        /\ 14 + nt + k \in 1 .. 14 + nt + nr + nd + ng
    BY <1>6
  <2>2. QED
    BY <2>1, <1>12, <1>13, <1>14, <1>15
<1>19. ASSUME NEW k \in 1 .. nd PROVE s5[14 + nt + nr + k] = p.data[k]
  <2>1. /\ 14 + nt + nr + k \in 1 .. 14 + nt + nr + nd
        /\ 14 + nt + nr + k \in 1 .. 14 + nt + nr + nd + ng
    BY <1>6
  <2>2. QED
    BY <2>1, <1>13, <1>14, <1>15
<1>20. ASSUME NEW k \in 1 .. ng PROVE s5[14 + nt + nr + nd + k] = GotWords(p)[k]
  <2>1. 14 + nt + nr + nd + k \in 1 .. 14 + nt + nr + nd + ng
    BY <1>6
  <2>2. QED
    BY <2>1, <1>14, <1>15
<1>21. QED
  BY <1>1, <1>7, <1>15, <1>16, <1>17, <1>18, <1>19, <1>20
-----------------------------------------------------------------------------
(* The invariant.                                                          *)

\* The pak that was found holds p, and is still at hand.
Found(p) ==
  \E n \in 1 .. Len(image) :
    /\ cursor = image[n].start /\ pak = PakAt(cursor)
    /\ FoundAt(n) /\ image[n].payload = Linked(p)

HdrOf(p) ==
  [text_offset |-> TextAt, text_size |-> SegmentSize(p, "text"),
   start_offset |-> TextAt + 4 * p.entry, got_offset |-> GotAt(p),
   got_size |-> 4 * Len(p.symbols), bss_offset |-> BssAt(p),
   bss_size |-> SegmentSize(p, "bss"), data_offset |-> DataAt(p),
   data_size |-> SegmentSize(p, "data"), rodata_offset |-> RodataAt(p),
   rodata_size |-> SegmentSize(p, "rodata")]

RamAddrs(place) ==
  [text |-> 0, start |-> 0, got |-> place["got"], bss |-> place["bss"],
   data |-> place["data"], rodata |-> 0]

AddrsOf(p, place) ==
  [text |-> pak.start + TextAt, start |-> pak.start + (TextAt + 4 * p.entry),
   got |-> place["got"], bss |-> place["bss"], data |-> place["data"],
   rodata |-> pak.start + RodataAt(p)]

DataCopied(p) == \A k \in 0 .. Len(p.data) - 1 : ram[addrs.data + 4 * k] = p.data[k + 1]
BssZeroed(p) == \A k \in 0 .. p.bss - 1 : ram[addrs.bss + 4 * k] = 0

\* The first m entries of the GOT are done.
Done(p, m) ==
  \A k \in 1 .. m :
    Inside(p, p.symbols[k]) =>
      ram[addrs.got + 4 * (k - 1)] = addrs[p.symbols[k].seg] + 4 * p.symbols[k].at

\* What has been set up, step by step.
SetUp(p, place) ==
  /\ hdr = HdrOf(p) /\ addrs = AddrsOf(p, place) /\ DOMAIN ram = Cells(place)
  /\ pc \in {"bss", "got", "started"} => DataCopied(p)
  /\ pc \in {"got", "started"} =>
       /\ BssZeroed(p)
       /\ \E m \in 0 .. Len(p.symbols) : i = 4 * m /\ Done(p, m)
  /\ pc = "started" => i >= 4 * Len(p.symbols)
  /\ pc = "refused" => \E k \in 1 .. Len(p.symbols) : ~Inside(p, p.symbols[k])

LoadInv ==
  /\ pc = "found" => \E p \in Programs : Found(p)
  /\ pc = "parsed" => \E p \in Programs : Found(p) /\ hdr = HdrOf(p)
  /\ pc = "xip" =>
       \E p \in Programs, place \in Places :
         Found(p) /\ hdr = HdrOf(p) /\ addrs = RamAddrs(place) /\ DOMAIN ram = Cells(place)
  /\ pc \in {"data", "bss", "got", "started", "refused"} =>
       \E p \in Programs, place \in Places : Found(p) /\ SetUp(p, place)

-----------------------------------------------------------------------------
(* The payload in flash.                                                   *)

\* The payload is all inside the span.
LEMMA PayloadInSpan ==
  ASSUME FlashAssumption, FlashInv, NEW p \in Programs, Found(p)
  PROVE  /\ pak.start \in Nat
         /\ pak.start + 4 * Len(Linked(p)) <= SpanStart + SpanSize
         /\ \A k \in 1 .. Len(Linked(p)) : Read(pak.start + 4 * (k - 1)) = Linked(p)[k]
         /\ IsProgram(p)
<1>1. PICK n \in 1 .. Len(image) :
        /\ cursor = image[n].start /\ pak = PakAt(cursor)
        /\ FoundAt(n) /\ image[n].payload = Linked(p)
  BY DEF Found
<1> DEFINE e == image[n]
<1>2. Len(image) \in Nat /\ e \in Paks
  BY PlacesInSpan, ElementOfSeq DEF FlashInv, Tiled
<1>3. Len(e.label) \in Nat /\ Len(e.payload) \in Nat /\ e.start \in Nat
  BY <1>2 DEF Paks
<1>4. pak.start = e.start + WriterHeaderSize(e)
  <2>1. PakAt(e.start) = [length |-> WriterLength(e), size |-> PayloadLength(e),
                          start |-> e.start + WriterHeaderSize(e)]
    BY PakIsRead, Zenon DEF FlashInv
  <2>2. QED
    BY <1>1, <2>1
<1>5. e.start + WriterLength(e) <= SpanStart + SpanSize
  <2>1. StartOf(n + 1) = e.start + WriterLength(e)
    BY DEF FlashInv, Tiled
  <2>2. n + 1 \in 1 .. Len(image) + 1
    BY <1>2
  <2>3. QED
    BY <2>1, <2>2, PlacesInSpan DEF FlashInv
<1>6. /\ WriterLength(e) = WriterHeaderSize(e) + WriterPayloadSize(e)
      /\ WriterHeaderSize(e) \in Nat /\ WriterPayloadSize(e) \in Nat
      /\ WriterPayloadSize(e) > PayloadLength(e) /\ PayloadLength(e) \in Nat
  BY <1>3, LengthIsWritten, Zenon
<1>7. PayloadLength(e) = 4 * Len(Linked(p))
  BY <1>1 DEF PayloadLength
<1>8. SpanStart \in Nat /\ SpanSize \in Nat
  BY FlashAssumption DEF FlashAssumption
<1>9. pak.start \in Nat /\ pak.start + 4 * Len(Linked(p)) <= SpanStart + SpanSize
  <2> HIDE DEF e
  <2>1. QED
    BY <1>3, <1>4, <1>5, <1>6, <1>7, <1>8
<1>10. \A k \in 1 .. Len(Linked(p)) : Read(pak.start + 4 * (k - 1)) = Linked(p)[k]
  BY <1>1 DEF FoundAt
<1>11. IsProgram(p)
  BY <1>1 DEF IsProgram
<1>12. QED
  BY <1>9, <1>10, <1>11

\* Word k of the payload, counted from 0.
LEMMA PayloadWord ==
  ASSUME FlashAssumption, FlashInv, NEW p \in Programs, Found(p),
         NEW k \in Nat, k < Len(Linked(p))
  PROVE  /\ Read(pak.start + 4 * k) = Linked(p)[k + 1]
         /\ pak.start + 4 * k < SpanStart + SpanSize
         /\ pak.start + 4 * k \in Nat
<1>1. Len(Linked(p)) \in Nat
  BY LinkedWords
<1>2. SpanStart \in Nat /\ SpanSize \in Nat
  BY FlashAssumption DEF FlashAssumption
<1>3. pak.start \in Nat /\ pak.start + 4 * Len(Linked(p)) <= SpanStart + SpanSize
  BY PayloadInSpan, Zenon
<1>4. k + 1 \in 1 .. Len(Linked(p)) /\ (k + 1) - 1 = k
  BY <1>1
<1>5. Read(pak.start + 4 * ((k + 1) - 1)) = Linked(p)[k + 1]
  BY <1>4, PayloadInSpan, Zenon
<1>6. Read(pak.start + 4 * k) = Linked(p)[k + 1]
  BY <1>4, <1>5, Zenon
<1>7. pak.start + 4 * k < SpanStart + SpanSize /\ pak.start + 4 * k \in Nat
  BY <1>1, <1>2, <1>3
<1>8. QED
  BY <1>6, <1>7

\* Word k of a section that has so many words before it.
LEMMA SectionWord ==
  ASSUME FlashAssumption, FlashInv, NEW p \in Programs, Found(p),
         NEW before \in Nat, NEW k \in Nat, 14 + before + k < Len(Linked(p)),
         NEW offset, offset = 56 + 4 * before
  PROVE  /\ Read(pak.start + offset + 4 * k) = Linked(p)[14 + before + (k + 1)]
         /\ pak.start + offset + 4 * k < SpanStart + SpanSize
<1>1. pak.start \in Nat
  BY PayloadInSpan, Zenon
<1>2. 14 + before + k \in Nat
  OBVIOUS
<1>3. /\ Read(pak.start + 4 * (14 + before + k)) = Linked(p)[14 + before + k + 1]
      /\ pak.start + 4 * (14 + before + k) < SpanStart + SpanSize
  BY <1>2, PayloadWord, Zenon
<1>4. pak.start + offset + 4 * k = pak.start + 4 * (14 + before + k)
  BY <1>1
<1>5. 14 + before + k + 1 = 14 + before + (k + 1)
  OBVIOUS
<1>6. QED
  BY <1>3, <1>4, <1>5, Zenon

\* What the loader reads of the payload, section by section.
LEMMA SectionWords ==
  ASSUME FlashAssumption, FlashInv, NEW p \in Programs, Found(p)
  PROVE  /\ \A k \in 0 .. Len(p.text) - 1 :
              /\ Read(pak.start + TextAt + 4 * k) = p.text[k + 1]
              /\ pak.start + TextAt + 4 * k < SpanStart + SpanSize
         /\ \A k \in 0 .. Len(p.rodata) - 1 :
              /\ Read(pak.start + RodataAt(p) + 4 * k) = p.rodata[k + 1]
              /\ pak.start + RodataAt(p) + 4 * k < SpanStart + SpanSize
         /\ \A k \in 0 .. Len(p.data) - 1 :
              Read(pak.start + DataAt(p) + 4 * k) = p.data[k + 1]
         /\ \A k \in 0 .. Len(p.symbols) - 1 :
              Read(pak.start + GotAt(p) + 4 * k) = GotWords(p)[k + 1]
<1> DEFINE nt == Len(p.text)
           nr == Len(p.rodata)
           nd == Len(p.data)
           ng == Len(p.symbols)
           nb == p.bss
<1>1. nt \in Nat /\ nr \in Nat /\ nd \in Nat /\ ng \in Nat /\ nb \in Nat
  BY ProgramTypes
<1>2. Len(Linked(p)) = 14 + nt + nr + nd + ng + nb
  BY LinkedWords
<1>3. /\ TextAt = 56 /\ RodataAt(p) = 56 + 4 * nt /\ DataAt(p) = 56 + 4 * nt + 4 * nr
      /\ GotAt(p) = 56 + 4 * nt + 4 * nr + 4 * nd
  BY Offsets, Zenon
<1>4. /\ \A k \in 1 .. nt : Linked(p)[14 + k] = p.text[k]
      /\ \A k \in 1 .. nr : Linked(p)[14 + nt + k] = p.rodata[k]
      /\ \A k \in 1 .. nd : Linked(p)[14 + nt + nr + k] = p.data[k]
      /\ \A k \in 1 .. ng : Linked(p)[14 + nt + nr + nd + k] = GotWords(p)[k]
  BY LinkedWords, Zenon
<1>5. /\ Len(p.text) = nt /\ Len(p.rodata) = nr /\ Len(p.data) = nd
      /\ Len(p.symbols) = ng
  OBVIOUS
<1> HIDE DEF nt, nr, nd, ng, nb
<1>6. ASSUME NEW k \in 0 .. nt - 1
      PROVE  /\ Read(pak.start + TextAt + 4 * k) = p.text[k + 1]
             /\ pak.start + TextAt + 4 * k < SpanStart + SpanSize
  <2> DEFINE before == 0
  <2>1. /\ k \in Nat /\ before \in Nat /\ 14 + before + k < Len(Linked(p)) /\ TextAt = 56 + 4 * before
        /\ k + 1 \in 1 .. nt
    BY <1>1, <1>2, <1>3
  <2>0. 14 + before + (k + 1) = 14 + (k + 1)
    BY <1>1
  <2> HIDE DEF before
  <2>2. /\ Read(pak.start + TextAt + 4 * k) = Linked(p)[14 + before + (k + 1)]
        /\ pak.start + TextAt + 4 * k < SpanStart + SpanSize
    BY <2>1, SectionWord, SMT
  <2>3. QED
    BY <1>3, <1>4, <2>1, <2>2, <2>0, Zenon
<1>7. ASSUME NEW k \in 0 .. nr - 1
      PROVE  /\ Read(pak.start + RodataAt(p) + 4 * k) = p.rodata[k + 1]
             /\ pak.start + RodataAt(p) + 4 * k < SpanStart + SpanSize
  <2>1. k \in Nat /\ 14 + nt + k < Len(Linked(p)) /\ k + 1 \in 1 .. nr
    BY <1>1, <1>2
  <2>2. /\ Read(pak.start + RodataAt(p) + 4 * k) = Linked(p)[14 + nt + (k + 1)]
        /\ pak.start + RodataAt(p) + 4 * k < SpanStart + SpanSize
    BY <1>1, <1>3, <2>1, SectionWord, Zenon
  <2>3. QED
    BY <1>4, <2>1, <2>2, Zenon
<1>8. ASSUME NEW k \in 0 .. nd - 1
      PROVE  Read(pak.start + DataAt(p) + 4 * k) = p.data[k + 1]
  <2> DEFINE before == nt + nr
  <2>1. /\ k \in Nat /\ before \in Nat /\ 14 + before + k < Len(Linked(p)) /\ k + 1 \in 1 .. nd
        /\ DataAt(p) = 56 + 4 * before
    BY <1>1, <1>2, <1>3
  <2>0. 14 + before + (k + 1) = 14 + nt + nr + (k + 1)
    BY <1>1
  <2> HIDE DEF before
  <2>2. Read(pak.start + DataAt(p) + 4 * k) = Linked(p)[14 + before + (k + 1)]
    BY <2>1, SectionWord, SMT
  <2>3. QED
    BY <1>4, <2>1, <2>2, <2>0, Zenon
<1>9. ASSUME NEW k \in 0 .. ng - 1
      PROVE  Read(pak.start + GotAt(p) + 4 * k) = GotWords(p)[k + 1]
  <2> DEFINE before == nt + nr + nd
  <2>1. /\ k \in Nat /\ before \in Nat /\ 14 + before + k < Len(Linked(p))
        /\ k + 1 \in 1 .. ng
        /\ GotAt(p) = 56 + 4 * before
    BY <1>1, <1>2, <1>3
  <2>0. 14 + before + (k + 1) = 14 + nt + nr + nd + (k + 1)
    BY <1>1
  <2> HIDE DEF before
  <2>2. Read(pak.start + GotAt(p) + 4 * k) = Linked(p)[14 + before + (k + 1)]
    BY <2>1, SectionWord, SMT
  <2>3. QED
    BY <1>4, <2>1, <2>2, <2>0, Zenon
<1>10. QED
  BY <1>5, <1>6, <1>7, <1>8, <1>9, Zenon

\* The header is read as it was written.
LEMMA HeaderIsRead ==
  ASSUME FlashAssumption, FlashInv, NEW p \in Programs, Found(p)
  PROVE  ParsedHeader(pak.start) = HdrOf(p)
<1>1. Len(Linked(p)) \in Nat /\ Len(Linked(p)) >= 14
  <2> DEFINE nt == Len(p.text)
             nr == Len(p.rodata)
             nd == Len(p.data)
             ng == Len(p.symbols)
             nb == p.bss
  <2>1. nt \in Nat /\ nr \in Nat /\ nd \in Nat /\ ng \in Nat /\ nb \in Nat
    BY ProgramTypes
  <2>2. Len(Linked(p)) = 14 + nt + nr + nd + ng + nb
    BY LinkedWords, Zenon
  <2> HIDE DEF nt, nr, nd, ng, nb
  <2>3. QED
    BY <2>1, <2>2
<1>2. ASSUME NEW k \in 0 .. 13 PROVE Read(pak.start + 4 * k) = Head14(p)[k + 1]
  <2>1. k \in Nat /\ k < Len(Linked(p)) /\ k + 1 \in 1 .. 14
    BY <1>1
  <2>2. Read(pak.start + 4 * k) = Linked(p)[k + 1]
    BY <2>1, PayloadWord, Zenon
  <2>3. QED
    BY <2>1, <2>2, LinkedWords, Zenon
<1>3. /\ Read(pak.start + 4 * 0) = TextAt
      /\ Read(pak.start + 4 * 1) = SegmentSize(p, "text")
      /\ Read(pak.start + 4 * 2) = TextAt + 4 * p.entry
      /\ Read(pak.start + 4 * 4) = GotAt(p)
      /\ Read(pak.start + 4 * 5) = 4 * Len(p.symbols)
      /\ Read(pak.start + 4 * 6) = BssAt(p)
      /\ Read(pak.start + 4 * 7) = SegmentSize(p, "bss")
      /\ Read(pak.start + 4 * 8) = DataAt(p)
      /\ Read(pak.start + 4 * 9) = SegmentSize(p, "data")
      /\ Read(pak.start + 4 * 10) = RodataAt(p)
      /\ Read(pak.start + 4 * 11) = SegmentSize(p, "rodata")
  BY <1>2 DEF Head14
<1>4. QED
  BY <1>3, Zenon DEF ParsedHeader, HdrOf

-----------------------------------------------------------------------------
(* The regions.                                                            *)

RamSegments == {"got", "bss", "data"}

\* A word of a region is memory, behind the flash.
LEMMA CellOf ==
  ASSUME NEW place \in Places, NEW r \in RamSegments,
         NEW k \in Nat, 4 * k + 4 <= Room
  PROVE  place[r] + 4 * k \in Cells(place) /\ place[r] \in Nat /\ Room \in Nat
<1>1. Room \in Nat /\ place[r] \in Nat
  BY LoadAssumption DEF RamSegments
<1>2. k \in 0 .. Room \div 4 - 1
  BY <1>1
<1>3. QED
  BY <1>1, <1>2 DEF Cells, RamSegments

\* What is read in flash is no memory of the task.
LEMMA FlashIsNoCell ==
  ASSUME FlashAssumption, NEW place \in Places, NEW a \in Int, a < SpanStart + SpanSize
  PROVE  a \notin Cells(place)
<1> SUFFICES ASSUME a \in Cells(place) PROVE FALSE
  OBVIOUS
<1>1. PICK r \in RamSegments, k \in 0 .. Room \div 4 - 1 : a = place[r] + 4 * k
  BY DEF Cells, RamSegments
<1>2. place[r] \in Nat /\ place[r] > SpanStart + SpanSize /\ Room \in Nat
  BY LoadAssumption DEF RamSegments
<1>3. SpanStart \in Nat /\ SpanSize \in Nat
  BY FlashAssumption DEF FlashAssumption
<1>4. k \in Nat
  BY <1>2
<1>5. QED
  BY <1>1, <1>2, <1>3, <1>4

\* A word of one region is in no other.
LEMMA RegionsApart ==
  ASSUME NEW place \in Places, NEW r \in RamSegments, NEW s \in RamSegments, r # s,
         NEW k \in Nat, 4 * k + 4 <= Room, NEW size \in Nat, size <= Room
  PROVE  place[r] + 4 * k \notin place[s] .. place[s] + size - 1
<1>1. place[r] \in Nat /\ place[s] \in Nat /\ Room \in Nat
  BY LoadAssumption DEF RamSegments
<1>2. place[r] + Room <= place[s] \/ place[s] + Room <= place[r]
  BY LoadAssumption DEF RamSegments
<1>3. QED
  BY <1>1, <1>2

\* The segments fit.
LEMMA SegmentsFit ==
  ASSUME NEW p \in Programs
  PROVE  /\ \A k \in 0 .. Len(p.data) - 1 : k \in Nat /\ 4 * k + 4 <= Room
         /\ \A k \in 0 .. p.bss - 1 : k \in Nat /\ 4 * k + 4 <= Room
         /\ \A k \in 0 .. Len(p.symbols) - 1 : k \in Nat /\ 4 * k + 4 <= Room
         /\ SegmentSize(p, "data") \in Nat /\ SegmentSize(p, "data") <= Room
         /\ SegmentSize(p, "bss") \in Nat /\ SegmentSize(p, "bss") <= Room
<1> DEFINE nd == Len(p.data)
           ng == Len(p.symbols)
           nb == p.bss
<1>1. nd \in Nat /\ ng \in Nat /\ nb \in Nat /\ Room \in Nat
  BY ProgramTypes, LoadAssumption
<1>2. SegmentSize(p, "data") = 4 * nd /\ SegmentSize(p, "bss") = 4 * nb
  BY ProgramTypes
<1>3. /\ SegmentSize(p, "data") <= Room /\ SegmentSize(p, "bss") <= Room
      /\ 4 * ng <= Room
  BY LoadAssumption DEF Segments
<1> HIDE DEF nd, ng, nb
<1>4. /\ \A k \in 0 .. nd - 1 : k \in Nat /\ 4 * k + 4 <= Room
      /\ \A k \in 0 .. nb - 1 : k \in Nat /\ 4 * k + 4 <= Room
      /\ \A k \in 0 .. ng - 1 : k \in Nat /\ 4 * k + 4 <= Room
      /\ SegmentSize(p, "data") \in Nat /\ SegmentSize(p, "bss") \in Nat
  BY <1>1, <1>2, <1>3
<1>5. QED
  BY <1>3, <1>4, Zenon DEF nd, ng, nb

-----------------------------------------------------------------------------
(* Relocation.                                                             *)

\* An offset inside a segment of the file is in no other segment.
LEMMA OneSegment ==
  ASSUME NEW p \in Programs, NEW seg \in Segments, NEW at \in Nat,
         4 * at < SegmentSize(p, seg), NEW other \in Segments
  PROVE  LET val == LinkedAt(p, seg) + 4 * at
         IN /\ val >= LinkedAt(p, other) /\ val < LinkedAt(p, other) + SegmentSize(p, other)
               <=> other = seg
            /\ val - LinkedAt(p, seg) = 4 * at
<1> DEFINE nt == Len(p.text)
           nr == Len(p.rodata)
           nd == Len(p.data)
           ng == Len(p.symbols)
           nb == p.bss
<1>1. nt \in Nat /\ nr \in Nat /\ nd \in Nat /\ ng \in Nat /\ nb \in Nat
  BY ProgramTypes
<1>2. /\ LinkedAt(p, "text") = 56
      /\ LinkedAt(p, "rodata") = 56 + 4 * nt
      /\ LinkedAt(p, "data") = 56 + 4 * nt + 4 * nr
      /\ LinkedAt(p, "bss") = 56 + 4 * nt + 4 * nr + 4 * nd + 4 * ng
  BY Offsets DEF LinkedAt
<1>3. /\ SegmentSize(p, "text") = 4 * nt /\ SegmentSize(p, "rodata") = 4 * nr
      /\ SegmentSize(p, "data") = 4 * nd /\ SegmentSize(p, "bss") = 4 * nb
  BY ProgramTypes
<1> HIDE DEF nt, nr, nd, ng, nb
<1>4. CASE seg = "text"
  BY <1>1, <1>2, <1>3, <1>4 DEF Segments
<1>5. CASE seg = "rodata"
  BY <1>1, <1>2, <1>3, <1>5 DEF Segments
<1>6. CASE seg = "data"
  BY <1>1, <1>2, <1>3, <1>6 DEF Segments
<1>7. CASE seg = "bss"
  BY <1>1, <1>2, <1>3, <1>7 DEF Segments
<1>8. QED
  BY <1>4, <1>5, <1>6, <1>7 DEF Segments

\* A GOT entry for a place inside a segment is found in that segment, and gets
\* the address of the same place of the segment in memory.
LEMMA RelocatedRight ==
  ASSUME NEW p \in Programs, hdr = HdrOf(p), NEW seg \in Segments, NEW at \in Nat,
         4 * at < SegmentSize(p, seg)
  PROVE  LET val == LinkedAt(p, seg) + 4 * at
         IN Holding(val) # {} /\ Relocated(val) = addrs[seg] + 4 * at
<1> DEFINE val == LinkedAt(p, seg) + 4 * at
<1>1. ASSUME NEW other \in Segments
      PROVE  Offset(other) = LinkedAt(p, other) /\ Size(other) = SegmentSize(p, other)
  BY DEF Offset, Size, LinkedAt, HdrOf, Segments
<1>2. /\ \A n \in 1 .. 4 : Tried[n] \in Segments
      /\ \E n \in 1 .. 4 : Tried[n] = seg
      /\ \A n, m \in 1 .. 4 : Tried[n] = Tried[m] => n = m
  BY DEF Tried, Segments
<1>3. PICK n \in 1 .. 4 : Tried[n] = seg
  BY <1>2
<1>4. ASSUME NEW m \in 1 .. 4 PROVE m \in Holding(val) <=> m = n
  <2>1. Tried[m] \in Segments
    BY <1>2
  <2>2. InRange(val, LinkedAt(p, Tried[m]), SegmentSize(p, Tried[m])) <=> Tried[m] = seg
    BY <2>1, OneSegment DEF InRange
  <2>3. InRange(val, Offset(Tried[m]), Size(Tried[m])) <=> Tried[m] = seg
    BY <1>1, <2>1, <2>2
  <2>4. QED
    BY <1>2, <1>3, <2>3 DEF Holding
<1>5. Holding(val) = {n}
  BY <1>4 DEF Holding
<1>6. (CHOOSE x \in Holding(val) : \A m \in Holding(val) : x <= m) = n
  BY <1>5
<1>7. Relocated(val) = addrs[seg] + (val - LinkedAt(p, seg))
  BY <1>1, <1>3, <1>6 DEF Relocated
<1>8. val - LinkedAt(p, seg) = 4 * at
  BY OneSegment
<1>9. QED
  BY <1>5, <1>7, <1>8

-----------------------------------------------------------------------------
(* Each step of the loader.                                                *)

flashOf == <<flash, image, end, span, name, cursor, pak>>

\* The loader's steps leave flash, and the pak that was found, alone.
LEMMA FoundStays ==
  ASSUME NEW p, Found(p), UNCHANGED flashOf
  PROVE  Found(p)' /\ pak' = pak
BY DEF Found, flashOf, FoundAt, PakAt, HeaderAt, PayloadStart, Read, BeginsWith

\* They keep the reader's invariant: none of them goes back to the reader.
LEMMA LoaderKeepsFlash ==
  ASSUME FlashInv, UNCHANGED flashOf, pc # "host",
         pc' \notin {"host", "init", "lookup", "found", "missing"}
  PROVE  FlashInv'
<1>1. Tiled' /\ Stored' /\ \A n : StartOf(n)' = StartOf(n)
  BY SameFlash DEF FlashInv, flashOf
<1>2. Walking'
  BY DEF FlashInv, Walking, flashOf
<1>3. QED
  BY <1>1, <1>2 DEF FlashInv

\* The header.
LEMMA ParseHeaderInv == FlashAssumption /\ FlashInv /\ LoadInv /\ ParseHeader => LoadInv'
<1> SUFFICES ASSUME FlashAssumption, FlashInv, LoadInv, ParseHeader PROVE LoadInv'
  OBVIOUS
<1>1. PICK p \in Programs : Found(p)
  BY DEF LoadInv, ParseHeader
<1>2. Found(p)'
  BY <1>1, FoundStays DEF ParseHeader, flashOf
<1>3. hdr' = HdrOf(p)
  BY <1>1, HeaderIsRead DEF ParseHeader
<1>4. QED
  BY <1>2, <1>3 DEF LoadInv, ParseHeader, HdrOf

\* The regions.
LEMMA AllocateInv == FlashAssumption /\ FlashInv /\ LoadInv /\ Allocate => LoadInv'
<1> SUFFICES ASSUME FlashAssumption, FlashInv, LoadInv, Allocate PROVE LoadInv'
  OBVIOUS
<1>1. PICK p \in Programs : Found(p) /\ hdr = HdrOf(p)
  BY DEF LoadInv, Allocate
<1>2. PICK place \in Places :
        /\ addrs' = [NoAddrs EXCEPT !.got = place["got"], !.bss = place["bss"],
                                    !.data = place["data"]]
        /\ ram' = [a \in Cells(place) |-> 0]
  BY DEF Allocate
<1>3. Found(p)' /\ hdr' = HdrOf(p)
  BY <1>1, FoundStays DEF Allocate, flashOf
<1>4. addrs' = RamAddrs(place)
  BY <1>2 DEF NoAddrs, RamAddrs
<1>5. DOMAIN ram' = Cells(place)
  BY <1>2
<1>6. QED
  BY <1>3, <1>4, <1>5 DEF LoadInv, Allocate

\* Text and rodata in flash.
LEMMA SetXipInv == FlashAssumption /\ FlashInv /\ LoadInv /\ SetXip => LoadInv'
<1> SUFFICES ASSUME FlashAssumption, FlashInv, LoadInv, SetXip PROVE LoadInv'
  OBVIOUS
<1>1. PICK p \in Programs, place \in Places :
        Found(p) /\ hdr = HdrOf(p) /\ addrs = RamAddrs(place) /\ DOMAIN ram = Cells(place)
  BY DEF LoadInv, SetXip
<1>2. Found(p)' /\ pak' = pak
  BY <1>1, FoundStays DEF SetXip, flashOf
<1>3. addrs' = AddrsOf(p, place)
  BY <1>1 DEF SetXip, XipAddrs, RamAddrs, AddrsOf, HdrOf
<1>4. SetUp(p, place)'
  BY <1>1, <1>2, <1>3 DEF SetXip, SetUp, AddrsOf, HdrOf
<1>5. QED
  BY <1>2, <1>4 DEF LoadInv, SetXip

\* What a step that is behind SetXip starts from, and has to keep.
LEMMA SetUpKept ==
  ASSUME NEW p \in Programs, NEW place \in Places, Found(p), SetUp(p, place),
         UNCHANGED flashOf, UNCHANGED <<hdr, addrs>>, DOMAIN ram' = DOMAIN ram
  PROVE  /\ Found(p)' /\ hdr' = HdrOf(p) /\ addrs' = AddrsOf(p, place)'
         /\ addrs = AddrsOf(p, place) /\ hdr = HdrOf(p)
         /\ DOMAIN ram' = Cells(place) /\ DOMAIN ram = Cells(place)
BY FoundStays DEF SetUp, AddrsOf, flashOf

\* The data.
LEMMA SetupDataInv == FlashAssumption /\ FlashInv /\ LoadInv /\ SetupData => LoadInv'
<1> SUFFICES ASSUME FlashAssumption, FlashInv, LoadInv, SetupData PROVE LoadInv'
  OBVIOUS
<1>1. PICK p \in Programs, place \in Places : Found(p) /\ SetUp(p, place)
  BY DEF LoadInv, SetupData
<1>2. UNCHANGED flashOf /\ UNCHANGED <<hdr, addrs>> /\ DOMAIN ram' = DOMAIN ram
  BY DEF SetupData, flashOf
<1>3. /\ Found(p)' /\ hdr' = HdrOf(p) /\ addrs' = AddrsOf(p, place)'
      /\ addrs = AddrsOf(p, place) /\ hdr = HdrOf(p)
      /\ DOMAIN ram' = Cells(place) /\ DOMAIN ram = Cells(place)
  BY <1>1, <1>2, SetUpKept
<1>4. ASSUME NEW k \in 0 .. Len(p.data) - 1
      PROVE  ram'[addrs.data + 4 * k] = p.data[k + 1]
  <2> DEFINE a == place["data"] + 4 * k
  <2>1. k \in Nat /\ 4 * k + 4 <= Room
    BY SegmentsFit
  <2>2. a \in Cells(place) /\ place["data"] \in Nat
    BY <2>1, CellOf DEF RamSegments
  <2>3. addrs.data = place["data"] /\ hdr.data_size = 4 * Len(p.data)
        /\ hdr.data_offset = DataAt(p)
    BY <1>3, ProgramTypes DEF AddrsOf, HdrOf
  <2>4. a \in addrs.data .. addrs.data + hdr.data_size - 1 /\ a - addrs.data = 4 * k
    <3>1. Len(p.data) \in Nat
      BY ProgramTypes
    <3>2. QED
      BY <2>2, <2>3, <3>1
  <2>5. ram'[a] = Read(pak.start + hdr.data_offset + (a - addrs.data))
    BY <1>3, <2>2, <2>4 DEF SetupData
  <2>6. Read(pak.start + DataAt(p) + 4 * k) = p.data[k + 1]
    BY <1>1, SectionWords
  <2>7. QED
    BY <2>3, <2>4, <2>5, <2>6
<1>5. SetUp(p, place)'
  <2>1. DataCopied(p)'
    BY <1>2, <1>4 DEF DataCopied
  <2>2. QED
    BY <1>3, <2>1 DEF SetUp, SetupData, HdrOf
<1>6. QED
  BY <1>3, <1>5 DEF LoadInv, SetupData

\* The bss.  What was copied is in another region.
LEMMA SetupBssInv == FlashAssumption /\ FlashInv /\ LoadInv /\ SetupBss => LoadInv'
<1> SUFFICES ASSUME FlashAssumption, FlashInv, LoadInv, SetupBss PROVE LoadInv'
  OBVIOUS
<1>1. PICK p \in Programs, place \in Places : Found(p) /\ SetUp(p, place)
  BY DEF LoadInv, SetupBss
<1>2. UNCHANGED flashOf /\ UNCHANGED <<hdr, addrs>> /\ DOMAIN ram' = DOMAIN ram
  BY DEF SetupBss, flashOf
<1>3. /\ Found(p)' /\ hdr' = HdrOf(p) /\ addrs' = AddrsOf(p, place)'
      /\ addrs = AddrsOf(p, place) /\ hdr = HdrOf(p)
      /\ DOMAIN ram' = Cells(place) /\ DOMAIN ram = Cells(place)
  BY <1>1, <1>2, SetUpKept
<1>4. /\ addrs.data = place["data"] /\ addrs.bss = place["bss"]
      /\ hdr.bss_size = SegmentSize(p, "bss")
  BY <1>3 DEF AddrsOf, HdrOf
<1>5. ASSUME NEW k \in 0 .. Len(p.data) - 1
      PROVE  ram'[addrs.data + 4 * k] = p.data[k + 1]
  <2> DEFINE a == place["data"] + 4 * k
  <2>1. k \in Nat /\ 4 * k + 4 <= Room
    BY SegmentsFit
  <2>2. a \in Cells(place)
    BY <2>1, CellOf DEF RamSegments
  <2>3. a \notin addrs.bss .. addrs.bss + hdr.bss_size - 1
    BY <1>4, <2>1, RegionsApart, SegmentsFit DEF RamSegments
  <2>4. ram'[a] = ram[a]
    BY <1>3, <2>2, <2>3 DEF SetupBss
  <2>5. ram[a] = p.data[k + 1]
    BY <1>1, <1>4 DEF SetUp, DataCopied, SetupBss
  <2>6. QED
    BY <1>4, <2>4, <2>5
<1>6. ASSUME NEW k \in 0 .. p.bss - 1
      PROVE  ram'[addrs.bss + 4 * k] = 0
  <2> DEFINE a == place["bss"] + 4 * k
  <2>1. k \in Nat /\ 4 * k + 4 <= Room
    BY SegmentsFit
  <2>2. a \in Cells(place) /\ place["bss"] \in Nat
    BY <2>1, CellOf DEF RamSegments
  <2>3. a \in addrs.bss .. addrs.bss + hdr.bss_size - 1
    <3>1. p.bss \in Nat /\ hdr.bss_size = 4 * p.bss
      BY <1>4, ProgramTypes
    <3>2. QED
      BY <1>4, <2>2, <3>1
  <2>4. QED
    BY <1>3, <1>4, <2>2, <2>3 DEF SetupBss
<1>7. SetUp(p, place)'
  <2>1. DataCopied(p)' /\ BssZeroed(p)'
    BY <1>2, <1>5, <1>6 DEF DataCopied, BssZeroed
  <2>2. 0 \in 0 .. Len(p.symbols) /\ i' = 4 * 0 /\ Done(p, 0)'
    BY ProgramTypes DEF SetupBss, Done
  <2>3. QED
    BY <1>3, <2>1, <2>2 DEF SetUp, SetupBss, HdrOf
<1>8. QED
  BY <1>3, <1>7 DEF LoadInv, SetupBss

\* One entry of the GOT: what has been filled in is in other regions, or behind.
LEMMA GotStepInv == FlashAssumption /\ FlashInv /\ LoadInv /\ GotStep => LoadInv'
<1> SUFFICES ASSUME FlashAssumption, FlashInv, LoadInv, GotStep PROVE LoadInv'
  OBVIOUS
<1>1. PICK p \in Programs, place \in Places : Found(p) /\ SetUp(p, place)
  BY DEF LoadInv, GotStep
<1>2. PICK m \in 0 .. Len(p.symbols) : i = 4 * m /\ Done(p, m)
  BY <1>1 DEF SetUp, GotStep
<1> DEFINE val == Read(pak.start + hdr.got_offset + i)
           sym == p.symbols[m + 1]
<1>3. /\ addrs = AddrsOf(p, place) /\ hdr = HdrOf(p) /\ DOMAIN ram = Cells(place)
      /\ DataCopied(p) /\ BssZeroed(p)
  BY <1>1 DEF SetUp, GotStep
<1>4. Len(p.symbols) \in Nat /\ hdr.got_size = 4 * Len(p.symbols) /\ hdr.got_offset = GotAt(p)
  BY <1>3, ProgramTypes DEF HdrOf
<1>5. m \in 0 .. Len(p.symbols) - 1 /\ m + 1 \in 1 .. Len(p.symbols)
  BY <1>2, <1>4 DEF GotStep
<1>6. sym.seg \in Segments /\ sym.at \in Nat
  BY <1>5, ProgramTypes
<1>7. val = LinkedAt(p, sym.seg) + 4 * sym.at
  <2>1. Read(pak.start + GotAt(p) + 4 * m) = GotWords(p)[m + 1]
    BY <1>1, <1>5, SectionWords
  <2>2. GotWords(p)[m + 1] = LinkedAt(p, sym.seg) + 4 * sym.at
    BY <1>5, GotWordsTyped
  <2>3. QED
    BY <1>2, <1>4, <2>1, <2>2
<1>8. Inside(p, sym) => Holding(val) # {} /\ Relocated(val) = addrs[sym.seg] + 4 * sym.at
  <2> SUFFICES ASSUME Inside(p, sym)
               PROVE  Holding(val) # {} /\ Relocated(val) = addrs[sym.seg] + 4 * sym.at
    OBVIOUS
  <2>1. 4 * sym.at < SegmentSize(p, sym.seg)
    BY DEF Inside
  <2>2. hdr = HdrOf(p)
    BY <1>3
  <2> HIDE DEF val, sym
  <2>3. LET there == LinkedAt(p, sym.seg) + 4 * sym.at
        IN Holding(there) # {} /\ Relocated(there) = addrs[sym.seg] + 4 * sym.at
    BY <1>6, <2>1, <2>2, RelocatedRight, Zenon
  <2>4. QED
    BY <1>7, <2>3, Zenon
<1>9. UNCHANGED flashOf /\ UNCHANGED <<hdr, addrs>>
  BY DEF GotStep, flashOf
<1>10. CASE /\ Holding(val) = {}
            /\ pc' = "refused" /\ UNCHANGED <<ram, i>>
  <2>1. ~Inside(p, p.symbols[m + 1])
    BY <1>8, <1>10
  <2>2. /\ Found(p)' /\ hdr' = HdrOf(p) /\ addrs' = AddrsOf(p, place)'
        /\ DOMAIN ram' = Cells(place)
    BY <1>1, <1>9, <1>10, SetUpKept
  <2>3. SetUp(p, place)'
    BY <1>5, <1>10, <2>1, <2>2 DEF SetUp, HdrOf, Inside
  <2>4. QED
    BY <1>10, <2>2, <2>3 DEF LoadInv
<1>11. CASE /\ Holding(val) # {}
            /\ ram' = [ram EXCEPT ![addrs.got + i] = Relocated(val)]
            /\ i' = i + 4 /\ UNCHANGED pc
  <2> DEFINE a == place["got"] + 4 * m
  <2>1. m \in Nat /\ 4 * m + 4 <= Room
    BY <1>5, SegmentsFit
  <2>2. a \in Cells(place) /\ place["got"] \in Nat
    BY <2>1, CellOf DEF RamSegments
  <2>3. addrs.got = place["got"] /\ addrs.data = place["data"] /\ addrs.bss = place["bss"]
    BY <1>3 DEF AddrsOf
  <2>4. ram' = [ram EXCEPT ![a] = Relocated(val)]
    BY <1>2, <1>11, <2>3
  <2>5. /\ Found(p)' /\ hdr' = HdrOf(p) /\ addrs' = AddrsOf(p, place)'
        /\ DOMAIN ram' = Cells(place)
    <3>1. DOMAIN ram' = DOMAIN ram
      BY <2>4
    <3>2. QED
      BY <1>1, <1>9, <3>1, SetUpKept
  <2>6. ASSUME NEW r \in {"bss", "data"}, NEW k \in Nat, 4 * k + 4 <= Room
        PROVE  ram'[place[r] + 4 * k] = ram[place[r] + 4 * k]
    <3>1. 4 \in Nat /\ 4 <= Room /\ Room \in Nat
      BY <2>1, CellOf DEF RamSegments
    <3>2. place[r] + 4 * k \in Cells(place) /\ place[r] \in Nat
      BY <2>6, CellOf DEF RamSegments
    <3>3. place[r] + 4 * k \notin place["got"] .. place["got"] + Room - 1
      BY <2>6, <3>1, RegionsApart DEF RamSegments
    <3>4. a \in place["got"] .. place["got"] + Room - 1
      BY <2>1, <2>2, <3>1
    <3>5. QED
      BY <1>3, <2>4, <3>2, <3>3, <3>4
  <2>7. DataCopied(p)'
    BY <1>3, <1>9, <2>3, <2>6, SegmentsFit DEF DataCopied
  <2>8. BssZeroed(p)'
    BY <1>3, <1>9, <2>3, <2>6, SegmentsFit DEF BssZeroed
  <2>9. i' = 4 * (m + 1) /\ m + 1 \in 0 .. Len(p.symbols)
    BY <1>2, <1>4, <1>5, <1>11
  <2>10. Done(p, m + 1)'
    <3> SUFFICES ASSUME NEW k \in 1 .. m + 1, Inside(p, p.symbols[k])
                 PROVE  ram'[place["got"] + 4 * (k - 1)]
                          = addrs[p.symbols[k].seg] + 4 * p.symbols[k].at
      BY <1>9, <2>3 DEF Done, Inside
    <3>1. CASE k = m + 1
      <4>1. ram'[a] = Relocated(val)
        BY <1>3, <2>2, <2>4
      <4>2. place["got"] + 4 * (k - 1) = a
        BY <2>1, <3>1
      <4>3. QED
        BY <1>8, <3>1, <4>1, <4>2
    <3>2. CASE k # m + 1
      <4>1. k \in 1 .. m /\ k - 1 \in 0 .. Len(p.symbols) - 1
        BY <1>5, <2>1, <3>2, <1>4
      <4>2. k - 1 \in Nat /\ 4 * (k - 1) + 4 <= Room
        BY <4>1, SegmentsFit
      <4>3. place["got"] + 4 * (k - 1) \in Cells(place)
        BY <4>2, CellOf DEF RamSegments
      <4>4. place["got"] + 4 * (k - 1) # a
        BY <2>1, <2>2, <4>1
      <4>5. ram'[place["got"] + 4 * (k - 1)] = ram[place["got"] + 4 * (k - 1)]
        BY <1>3, <2>4, <4>3, <4>4
      <4>6. ram[addrs.got + 4 * (k - 1)] = addrs[p.symbols[k].seg] + 4 * p.symbols[k].at
        BY <1>2, <4>1 DEF Done
      <4>7. QED
        BY <2>3, <4>5, <4>6
    <3>3. QED
      BY <3>1, <3>2
  <2>11. pc = "got" /\ pc' = "got"
    BY <1>11 DEF GotStep
  <2>12. SetUp(p, place)'
    BY <2>5, <2>7, <2>8, <2>9, <2>10, <2>11 DEF SetUp, HdrOf
  <2>13. QED
    BY <2>5, <2>11, <2>12 DEF LoadInv
<1>12. QED
  BY <1>10, <1>11 DEF GotStep

\* The end of the loop: all entries are done.
LEMMA StartInv == FlashAssumption /\ FlashInv /\ LoadInv /\ Start => LoadInv'
<1> SUFFICES ASSUME FlashAssumption, FlashInv, LoadInv, Start PROVE LoadInv'
  OBVIOUS
<1>1. PICK p \in Programs, place \in Places : Found(p) /\ SetUp(p, place)
  BY DEF LoadInv, Start
<1>2. UNCHANGED flashOf /\ UNCHANGED <<hdr, addrs>> /\ DOMAIN ram' = DOMAIN ram
      /\ UNCHANGED <<ram, i>>
  BY DEF Start, flashOf, loadVars
<1>3. /\ Found(p)' /\ hdr' = HdrOf(p) /\ addrs' = AddrsOf(p, place)'
      /\ hdr = HdrOf(p) /\ DOMAIN ram' = Cells(place)
  BY <1>1, <1>2, SetUpKept
<1>4. hdr.got_size = 4 * Len(p.symbols)
  BY <1>3 DEF HdrOf
<1>5. SetUp(p, place)'
  <2>1. pc = "got" /\ pc' = "started" /\ i >= 4 * Len(p.symbols)
    BY <1>4 DEF Start
  <2>2. PICK m \in 0 .. Len(p.symbols) : i = 4 * m /\ Done(p, m)
    BY <1>1, <2>1 DEF SetUp
  <2>3. DataCopied(p) /\ BssZeroed(p)
    BY <1>1, <2>1 DEF SetUp
  <2>4. DataCopied(p)' /\ BssZeroed(p)'
    BY <1>2, <2>3 DEF DataCopied, BssZeroed
  <2>5. Done(p, m)'
    BY <1>2, <2>2 DEF Done
  <2>6. i' = i
    BY <1>2
  <2>7. QED
    BY <1>3, <2>1, <2>2, <2>4, <2>5, <2>6 DEF SetUp
<1>6. QED
  BY <1>3, <1>5 DEF LoadInv, Start

\* The reader's steps end, if they end well, at a pak that holds a program.
LEMMA ReaderInv ==
  FlashAssumption /\ FlashInv /\ FlashInv' /\ FlashNext => LoadInv'
<1> SUFFICES ASSUME FlashAssumption, FlashInv, FlashInv', FlashNext PROVE LoadInv'
  OBVIOUS
<1>1. pc' \in {"host", "init", "ready", "lookup", "found", "missing"}
  BY DEF FlashNext, AddPak, SpanInit, InitStep, Lookup, LookupStep
<1>2. ASSUME pc' = "found" PROVE \E p \in Programs : Found(p)'
  <2>1. LookupStep
    BY <1>2 DEF FlashNext, AddPak, SpanInit, InitStep, Lookup
  <2>2. pak' = PakAt(cursor)' /\ image' = image /\ Len(image') = Len(image)
    BY <1>2, <2>1 DEF LookupStep, PakAt, HeaderAt, PayloadStart, Read
  <2>3. PICK n \in 1 .. Len(image') : cursor' = image'[n].start /\ FoundAt(n)'
    BY <1>2 DEF FlashInv, Walking
  <2>4. image'[n] \in Paks
    BY <2>2, <2>3, ElementOfSeq DEF FlashInv, Tiled
  <2>5. PICK e \in Entries : image'[n].payload = e.payload
    BY <2>4 DEF Paks
  <2>6. PICK p \in Programs : e.payload = Linked(p)
    BY LoadAssumption
  <2>7. QED
    BY <2>2, <2>3, <2>5, <2>6 DEF Found
<1>3. QED
  BY <1>1, <1>2 DEF LoadInv

-----------------------------------------------------------------------------
(* The theorems.                                                           *)

\* Reader and loader together.
LEMMA LoaderInit == Init => FlashInv /\ LoadInv
BY FlashAssumption, FlashInitInv DEF Init, FlashInit, LoadInv

\* Each step keeps both invariants.
LEMMA LoaderStep == FlashInv /\ LoadInv /\ [Next]_vars => FlashInv' /\ LoadInv'
<1> SUFFICES ASSUME FlashInv, LoadInv, [Next]_vars PROVE FlashInv' /\ LoadInv'
  OBVIOUS
<1>1. CASE FlashNext
  BY <1>1, FlashAssumption, FlashStepInv, ReaderInv
<1>2. CASE ParseHeader
  BY <1>2, FlashAssumption, ParseHeaderInv, LoaderKeepsFlash DEF ParseHeader, flashOf
<1>3. CASE Allocate
  <2>1. UNCHANGED flashOf /\ pc = "parsed" /\ pc' = "xip"
    BY <1>3 DEF Allocate, flashOf
  <2>2. QED
    BY <1>3, <2>1, FlashAssumption, AllocateInv, LoaderKeepsFlash
<1>4. CASE AllocateFails
  BY <1>4, LoaderKeepsFlash DEF AllocateFails, flashOf, LoadInv
<1>5. CASE SetXip
  BY <1>5, FlashAssumption, SetXipInv, LoaderKeepsFlash DEF SetXip, flashOf
<1>6. CASE SetupData
  BY <1>6, FlashAssumption, SetupDataInv, LoaderKeepsFlash DEF SetupData, flashOf
<1>7. CASE SetupBss
  BY <1>7, FlashAssumption, SetupBssInv, LoaderKeepsFlash DEF SetupBss, flashOf
<1>8. CASE GotStep
  <2>1. UNCHANGED flashOf /\ pc = "got" /\ pc' \in {"got", "refused"}
    BY <1>8 DEF GotStep, flashOf
  <2>2. QED
    BY <1>8, <2>1, FlashAssumption, GotStepInv, LoaderKeepsFlash
<1>9. CASE Start
  BY <1>9, FlashAssumption, StartInv, LoaderKeepsFlash DEF Start, flashOf
<1>10. CASE UNCHANGED vars
  <2>1. UNCHANGED flashVars /\ UNCHANGED loadVars
    BY <1>10 DEF vars
  <2>2. FlashInv'
    BY <2>1, FlashAssumption, FlashStutterInv
  <2>3. \A p : Found(p)' = Found(p)
    BY <2>1 DEF flashVars, Found, FoundAt, PakAt, HeaderAt, PayloadStart, Read, BeginsWith
  <2>4. \A p, place : SetUp(p, place)' = SetUp(p, place)
    BY <2>1 DEF flashVars, loadVars, SetUp, AddrsOf, DataCopied, BssZeroed, Done
  <2>5. LoadInv'
    BY <2>1, <2>3, <2>4 DEF LoadInv, flashVars, loadVars
  <2>6. QED
    BY <2>2, <2>5
<1>11. QED
  BY <1>1, <1>2, <1>3, <1>4, <1>5, <1>6, <1>7, <1>8, <1>9, <1>10 DEF Next

\* So they hold always.
LEMMA LoaderAlways == Spec => [](FlashInv /\ LoadInv)
BY LoaderInit, LoaderStep, PTL DEF Spec

\* While it walks, the reader is at a pak that was written, or at the end.
THEOREM ReaderWalksOnPaks == Spec => []WalkOnPaks
BY LoaderAlways, FlashAssumption, FlashInvImplies, PTL

\* A lookup finds the first pak whose label begins with the name, and what was
\* written in it; it is in vain only if there is none.
THEOREM ReaderFinds == Spec => []LookupFinds
BY LoaderAlways, FlashAssumption, FlashInvImplies, PTL

\* Text and rodata are found in flash, data and bss in memory.
LEMMA ContentFound ==
  ASSUME FlashAssumption, FlashInv, NEW p \in Programs, NEW place \in Places,
         Found(p), SetUp(p, place), pc = "started",
         NEW seg \in Segments, NEW at \in Nat, 4 * at < SegmentSize(p, seg)
  PROVE  At(addrs[seg] + 4 * at) = IF seg = "bss" THEN 0 ELSE p[seg][at + 1]
<1>1. /\ addrs = AddrsOf(p, place) /\ DOMAIN ram = Cells(place)
      /\ DataCopied(p) /\ BssZeroed(p)
  BY DEF SetUp
<1>2. pak.start \in Nat
  BY PayloadInSpan, Zenon
<1>3. TextAt \in Nat /\ RodataAt(p) \in Nat
  BY Offsets, Zenon
<1>4. CASE seg = "text"
  <2>1. Len(p.text) \in Nat /\ SegmentSize(p, "text") = 4 * Len(p.text)
    BY ProgramTypes
  <2>2. at \in 0 .. Len(p.text) - 1
    BY <1>4, <2>1
  <2>3. /\ Read(pak.start + TextAt + 4 * at) = p.text[at + 1]
        /\ pak.start + TextAt + 4 * at < SpanStart + SpanSize
    BY <2>2, SectionWords, Zenon
  <2>4. addrs[seg] + 4 * at = pak.start + TextAt + 4 * at /\ pak.start + TextAt + 4 * at \in Int
    BY <1>1, <1>2, <1>3, <1>4 DEF AddrsOf
  <2>5. pak.start + TextAt + 4 * at \notin DOMAIN ram
    BY <1>1, <2>3, <2>4, FlashIsNoCell, Zenon
  <2>6. At(addrs[seg] + 4 * at) = p.text[at + 1]
    BY <2>3, <2>4, <2>5, Zenon DEF At
  <2>7. QED
    BY <1>4, <2>6
<1>5. CASE seg = "rodata"
  <2>1. Len(p.rodata) \in Nat /\ SegmentSize(p, "rodata") = 4 * Len(p.rodata)
    BY ProgramTypes
  <2>2. at \in 0 .. Len(p.rodata) - 1
    BY <1>5, <2>1
  <2>3. /\ Read(pak.start + RodataAt(p) + 4 * at) = p.rodata[at + 1]
        /\ pak.start + RodataAt(p) + 4 * at < SpanStart + SpanSize
    BY <2>2, SectionWords, Zenon
  <2>4. /\ addrs[seg] + 4 * at = pak.start + RodataAt(p) + 4 * at
        /\ pak.start + RodataAt(p) + 4 * at \in Int
    BY <1>1, <1>2, <1>3, <1>5 DEF AddrsOf
  <2>5. pak.start + RodataAt(p) + 4 * at \notin DOMAIN ram
    BY <1>1, <2>3, <2>4, FlashIsNoCell, Zenon
  <2>6. At(addrs[seg] + 4 * at) = p.rodata[at + 1]
    BY <2>3, <2>4, <2>5, Zenon DEF At
  <2>7. QED
    BY <1>5, <2>6
<1>6. CASE seg = "data"
  <2>1. Len(p.data) \in Nat /\ SegmentSize(p, "data") = 4 * Len(p.data)
    BY ProgramTypes
  <2>2. at \in 0 .. Len(p.data) - 1
    BY <1>6, <2>1
  <2>3. ram[addrs.data + 4 * at] = p.data[at + 1]
    BY <1>1, <2>2 DEF DataCopied
  <2>4. addrs.data + 4 * at \in DOMAIN ram
    <3>1. at \in Nat /\ 4 * at + 4 <= Room /\ "data" \in RamSegments
      BY <2>2, SegmentsFit DEF RamSegments
    <3>2. place["data"] + 4 * at \in Cells(place)
      BY <3>1, CellOf
    <3>3. QED
      BY <1>1, <3>2 DEF AddrsOf
  <2>5. At(addrs.data + 4 * at) = p.data[at + 1]
    BY <2>3, <2>4 DEF At
  <2>6. QED
    BY <1>6, <2>5
<1>7. CASE seg = "bss"
  <2>1. p.bss \in Nat /\ SegmentSize(p, "bss") = 4 * p.bss
    BY ProgramTypes
  <2>2. at \in 0 .. p.bss - 1
    BY <1>7, <2>1
  <2>3. ram[addrs.bss + 4 * at] = 0
    BY <1>1, <2>2 DEF BssZeroed
  <2>4. addrs.bss + 4 * at \in DOMAIN ram
    <3>1. at \in Nat /\ 4 * at + 4 <= Room /\ "bss" \in RamSegments
      BY <2>2, SegmentsFit DEF RamSegments
    <3>2. place["bss"] + 4 * at \in Cells(place)
      BY <3>1, CellOf
    <3>3. QED
      BY <1>1, <3>2 DEF AddrsOf
  <2>5. At(addrs.bss + 4 * at) = 0
    BY <2>3, <2>4 DEF At
  <2>6. QED
    BY <1>7, <2>5
<1>8. QED
  BY <1>4, <1>5, <1>6, <1>7 DEF Segments

\* A program that starts has been set up to the last entry of its GOT.
LEMMA StartedIsLoaded ==
  ASSUME FlashAssumption, FlashInv, NEW p \in Programs, NEW place \in Places,
         Found(p), SetUp(p, place), pc = "started"
  PROVE  Loaded(p)
<1>1. addrs = AddrsOf(p, place)
  BY DEF SetUp
<1>2. At(addrs.start) = p.text[p.entry + 1]
  <2>1. /\ p.entry \in Nat /\ p.entry < Len(p.text) /\ Len(p.text) \in Nat
        /\ SegmentSize(p, "text") = 4 * Len(p.text)
    BY ProgramTypes
  <2>2. 4 * p.entry < SegmentSize(p, "text")
    BY <2>1
  <2>3. At(addrs["text"] + 4 * p.entry) = p["text"][p.entry + 1]
    <3>1. "text" \in Segments /\ "text" # "bss"
      BY DEF Segments
    <3>2. At(addrs["text"] + 4 * p.entry)
            = IF "text" = "bss" THEN 0 ELSE p["text"][p.entry + 1]
      BY <2>1, <2>2, <3>1, ContentFound, Zenon
    <3>3. QED
      BY <3>1, <3>2
  <2>4. addrs.start = addrs["text"] + 4 * p.entry
    <3>1. pak.start \in Nat /\ TextAt \in Nat
      BY PayloadInSpan, Offsets, Zenon
    <3>2. QED
      BY <1>1, <2>1, <3>1 DEF AddrsOf
  <2>5. QED
    BY <2>3, <2>4, Zenon
<1>3. PICK m \in 0 .. Len(p.symbols) : i = 4 * m /\ Done(p, m)
  BY DEF SetUp
<1>4. m = Len(p.symbols)
  <2>1. Len(p.symbols) \in Nat /\ i >= 4 * Len(p.symbols)
    BY ProgramTypes DEF SetUp
  <2>2. QED
    BY <1>3, <2>1
<1>5. ASSUME NEW n \in 1 .. Len(p.symbols), Inside(p, p.symbols[n])
      PROVE  /\ ram[addrs.got + 4 * (n - 1)] = addrs[p.symbols[n].seg] + 4 * p.symbols[n].at
             /\ At(addrs[p.symbols[n].seg] + 4 * p.symbols[n].at) = Content(p, p.symbols[n])
  <2>1. ram[addrs.got + 4 * (n - 1)] = addrs[p.symbols[n].seg] + 4 * p.symbols[n].at
    BY <1>3, <1>4, <1>5 DEF Done
  <2>2. /\ p.symbols[n].seg \in Segments /\ p.symbols[n].at \in Nat
        /\ 4 * p.symbols[n].at < SegmentSize(p, p.symbols[n].seg)
    BY <1>5, ProgramTypes DEF Inside
  <2>3. At(addrs[p.symbols[n].seg] + 4 * p.symbols[n].at) = Content(p, p.symbols[n])
    BY <2>2, ContentFound, Zenon DEF Content
  <2>4. QED
    BY <2>1, <2>3
<1>6. QED
  BY <1>2, <1>5, Zenon DEF Loaded

\* A program that is started finds, through each entry of its GOT, what it was
\* linked with, and one is refused only if it names the end of a segment.
THEOREM ProgramsLoadAsLinked == Spec => []LoadedAsLinked
<1>1. ASSUME FlashInv, LoadInv PROVE LoadedAsLinked
  <2>1. ASSUME pc = "started" PROVE \E p \in Programs : IsProgram(p) /\ Loaded(p)
    <3>1. PICK p \in Programs, place \in Places : Found(p) /\ SetUp(p, place)
      BY <1>1, <2>1 DEF LoadInv
    <3>2. IsProgram(p)
      BY <1>1, <3>1, FlashAssumption, PayloadInSpan, Zenon
    <3>3. Loaded(p)
      BY <1>1, <2>1, <3>1, FlashAssumption, StartedIsLoaded
    <3>4. QED
      BY <3>2, <3>3
  <2>2. ASSUME pc = "refused"
        PROVE  \E p \in Programs :
                 IsProgram(p) /\ \E n \in 1 .. Len(p.symbols) : ~Inside(p, p.symbols[n])
    <3>1. PICK p \in Programs, place \in Places : Found(p) /\ SetUp(p, place)
      BY <1>1, <2>2 DEF LoadInv
    <3>2. IsProgram(p)
      BY <1>1, <3>1, FlashAssumption, PayloadInSpan, Zenon
    <3>3. QED
      BY <2>2, <3>1, <3>2 DEF SetUp
  <2>3. QED
    BY <2>1, <2>2 DEF LoadedAsLinked
<1>2. QED
  BY <1>1, LoaderAlways, PTL
=============================================================================
