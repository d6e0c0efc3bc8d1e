---------------------------- MODULE FlashResource ----------------------------
(***************************************************************************)
(* Resources in flash: make_entry.c writes a file as a pak on the host,    *)
(* the Makefile appends paks to the kernel image, and flash_resource.c     *)
(* walks them on the device and looks one up by its label.  Writer and     *)
(* reader share a header file and no code.                                 *)
(*                                                                         *)
(* Addresses are in bytes.  Flash maps the address of each word to what    *)
(* is there; a label is one object at its first byte.  Padding is left     *)
(* out: like erased flash, it is no magic.                                 *)
(***************************************************************************)
EXTENDS Integers, Sequences

CONSTANTS
  SpanStart,   \* _flash_resource_start
  SpanSize,
  LabelSize,   \* of the reader's buffer for labels
  Entries,     \* what the host may make paks of: [label, payload]
  MaxPaks,     \* bound: paks in an image
  Names,       \* labels that may be looked up
  Magic, Erased

HeaderSize == 32
PakAlignment == 32

ASSUME FlashAssumption ==
  /\ SpanStart \in Nat /\ SpanStart % PakAlignment = 0   \* the linker script's ALIGN(32)
  /\ SpanSize \in Nat /\ LabelSize \in Nat \ {0} /\ MaxPaks \in Nat
  /\ Magic # Erased
  /\ \A e \in Entries : Len(e.label) \in Nat /\ Len(e.payload) \in Nat
  /\ \A n \in Names : Len(n) \in Nat

VARIABLES
  flash,       \* address -> word
  image,       \* the paks written, in order: [start, label, payload]
  end,         \* where the image ends
  span,        \* flash_span
  pc,          \* where main() is
  name,        \* what it looks up
  cursor,      \* start, in the loops of the reader
  pak          \* struct flash_resource_pak

flashVars == <<flash, image, end, span, pc, name, cursor, pak>>

-----------------------------------------------------------------------------
(* make_entry.c                                                            *)

\* align_uint32: always past val.
Align(val, align) == val + (align - (val % align))

PayloadLength(e) == 4 * Len(e.payload)

\* calculate_header_size, calculate_payload_size: the two buffers written.
WriterHeaderSize(e) == Align(HeaderSize + Len(e.label), PakAlignment)
WriterPayloadSize(e) == Align(PayloadLength(e), PakAlignment)

\* Faulty variant: the sizes are added up before they are aligned.
WriterLengthOnce(e) == Align(HeaderSize + Len(e.label) + PayloadLength(e), PakAlignment)

\* calculate_buffer_size: the length in the header.
WriterLength(e) ==
  Align(Align(HeaderSize + Len(e.label), PakAlignment) + PayloadLength(e), PakAlignment)

\* populate_header_buf; the checksum, the type and rsv0 are read by nobody.
HeaderWords(e) ==
  [k \in 0 .. 7 |->
     IF k = 0 THEN Magic
     ELSE IF k = 3 THEN WriterLength(e)
     ELSE IF k = 4 THEN PakAlignment
     ELSE IF k = 5 THEN Len(e.label)
     ELSE IF k = 6 THEN PayloadLength(e)
     ELSE 0]

HeaderCells(start) == {start + 4 * k : k \in 0 .. 7}
LabelCell(start) == start + HeaderSize
PayloadCells(e, body) == {body + 4 * (k - 1) : k \in 1 .. Len(e.payload)}

\* The two buffers, one after the other.
PakFile(e, start) ==
  LET body == start + WriterHeaderSize(e)
  IN [a \in HeaderCells(start) \cup {LabelCell(start)} \cup PayloadCells(e, body) |->
        IF a < LabelCell(start) THEN HeaderWords(e)[(a - start) \div 4]
        ELSE IF a = LabelCell(start) THEN e.label
        ELSE e.payload[(a - body) \div 4 + 1]]

\* main of make_entry, and "cat" in the Makefile.
AddPak ==
  /\ pc = "host" /\ Len(image) < MaxPaks
  /\ \E e \in Entries :
       LET file == PakFile(e, end)
       IN /\ flash' = [a \in DOMAIN flash \cup DOMAIN file |->
                         IF a \in DOMAIN file THEN file[a] ELSE flash[a]]
          /\ image' = Append(image, [start |-> end, label |-> e.label, payload |-> e.payload])
          /\ end' = end + WriterHeaderSize(e) + WriterPayloadSize(e)
          /\ end' <= SpanStart + SpanSize
  /\ UNCHANGED <<span, pc, name, cursor, pak>>

-----------------------------------------------------------------------------
(* flash_resource.c                                                        *)

Read(a) == IF a \in DOMAIN flash THEN flash[a] ELSE Erased

\* The fields of the header that are used.
HeaderAt(a) == [length |-> Read(a + 12), alignment |-> Read(a + 16),
                namelength |-> Read(a + 20), payload_length |-> Read(a + 24)]

\* kern_strlcpyn: as much as fits, with room for the NUL.
CopiedLabel(a) ==
  LET kept == IF HeaderAt(a).namelength < LabelSize THEN HeaderAt(a).namelength
              ELSE LabelSize - 1
  IN [k \in 1 .. kept |-> Read(a + HeaderSize)[k]]

\* align_paddr_t
AlignPaddr(val, align) == val + (align - (val % align))

PayloadStart(a) == AlignPaddr(a + HeaderSize + HeaderAt(a).namelength, HeaderAt(a).alignment)

\* What flash_resource_check_pak fills in, and returns.
PakAt(a) == [length |-> HeaderAt(a).length, start |-> PayloadStart(a),
             size |-> HeaderAt(a).payload_length]
CheckPak(a) == Read(a) = Magic

\* Faulty variant: the shorter of the two decides.
MatchesShorter(wanted, label) ==
  \A k \in 1 .. Len(wanted) : k <= Len(label) => label[k] = wanted[k]

\* kern_strncmp over the length of the wanted name: a label that begins with it.
Matches(wanted, label) ==
  Len(wanted) <= Len(label) /\ \A k \in 1 .. Len(wanted) : label[k] = wanted[k]

NoPak == [length |-> 0, start |-> 0, size |-> 0]

\* flash_resource_span_init, called once.
SpanInit ==
  /\ pc = "host" /\ ~span.setup
  /\ span' = [setup |-> TRUE, start |-> SpanStart, end |-> SpanStart + SpanSize]
  /\ cursor' = SpanStart
  /\ pc' = "init"
  /\ UNCHANGED <<flash, image, end, name, pak>>

\* One round of its loop.
InitStep ==
  /\ pc = "init"
  /\ \/ /\ CheckPak(cursor)
        /\ cursor' = cursor + PakAt(cursor).length
        /\ pc' = IF cursor' > span.end THEN "ready" ELSE "init"
     \/ /\ ~CheckPak(cursor)
        /\ pc' = "ready"
        /\ UNCHANGED cursor
  /\ UNCHANGED <<flash, image, end, span, name, pak>>

\* flash_resource_lookup.
Lookup ==
  /\ pc = "ready" /\ span.setup
  /\ name' \in Names
  /\ cursor' = span.start
  /\ pc' = "lookup"
  /\ UNCHANGED <<flash, image, end, span, pak>>

\* Faulty variant: the loop does not move.
NextPakHere(a) == a

NextPak(a) == a + PakAt(a).length

LookupStep ==
  /\ pc = "lookup"
  /\ \/ /\ CheckPak(cursor)
        /\ pak' = PakAt(cursor)
        /\ \/ /\ Matches(name, CopiedLabel(cursor))
              /\ pc' = "found"
              /\ UNCHANGED cursor
           \/ /\ ~Matches(name, CopiedLabel(cursor))
              /\ cursor' = NextPak(cursor)
              /\ pc' = IF cursor' > span.end THEN "missing" ELSE "lookup"
     \/ /\ ~CheckPak(cursor)
        /\ pc' = "missing"
        /\ UNCHANGED <<cursor, pak>>
  /\ UNCHANGED <<flash, image, end, span, name>>

FlashInit ==
  /\ flash = << >> /\ image = << >> /\ end = SpanStart
  /\ span = [setup |-> FALSE, start |-> 0, end |-> 0]
  /\ pc = "host" /\ name = << >> /\ cursor = 0 /\ pak = NoPak

FlashNext == AddPak \/ SpanInit \/ InitStep \/ Lookup \/ LookupStep

FlashSpec == FlashInit /\ [][FlashNext]_flashVars

-----------------------------------------------------------------------------
(* Properties.                                                             *)

\* Addresses stay addresses: the image is inside the span, and what the reader
\* takes for lengths are lengths.
FlashTypeOK ==
  /\ \A a \in DOMAIN flash : a \in SpanStart .. end
  /\ end \in SpanStart .. SpanStart + SpanSize
  /\ Len(image) \in 0 .. MaxPaks
  /\ span \in [setup : BOOLEAN, start : Nat, end : Nat]
  /\ name \in Names \cup {<< >>}
  /\ cursor \in Nat
  /\ pak \in [length : Nat, start : Nat, size : Nat]

Kept(label) == [k \in 1 .. (IF Len(label) < LabelSize THEN Len(label) ELSE LabelSize - 1)
                  |-> label[k]]

BeginsWith(label, wanted) ==
  \A k \in 1 .. Len(wanted) : k <= Len(label) /\ label[k] = wanted[k]

\* While it walks, the reader is at a pak that was written or where the image
\* ends: it never takes part of a pak for a header, and never leaves the span.
WalkOnPaks ==
  pc \in {"init", "lookup", "found"} =>
    /\ cursor \in {image[n].start : n \in 1 .. Len(image)} \cup {end}
    /\ cursor <= span.end

\* The n-th pak is the first whose label, as far as it is kept, begins with the
\* name, and the reader gets of it, word for word, the payload written.
FoundAt(n) ==
  /\ BeginsWith(Kept(image[n].label), name)
  /\ \A m \in 1 .. n - 1 : ~BeginsWith(Kept(image[m].label), name)
  /\ pak.size = PayloadLength(image[n])
  /\ \A k \in 1 .. Len(image[n].payload) :
       Read(pak.start + 4 * (k - 1)) = image[n].payload[k]

\* A lookup finds the first such pak, and is in vain only if there is none.
LookupFinds ==
  /\ pc = "found" => \E n \in 1 .. Len(image) : FoundAt(n)
  /\ pc = "missing" => \A n \in 1 .. Len(image) : ~BeginsWith(Kept(image[n].label), name)
=============================================================================
