------------------------------- MODULE UserExec -------------------------------
(***************************************************************************)
(* Loading a program: test_userload.c finds it with FlashResource, parses  *)
(* the header the linker script put in front of it, gets memory for its    *)
(* segments and has user_exec.c fill them in and relocate its GOT.  Text   *)
(* and rodata stay in flash, so the parts of a program that were linked    *)
(* one behind the other end up in unrelated places.                        *)
(*                                                                         *)
(* All this is one thread, before any task runs.  Memory is in words, at   *)
(* byte addresses.  platform_user_task_mem_allocate is KernTaskMem's; here *)
(* it returns zeroed regions from Places, or fails.                        *)
(***************************************************************************)
EXTENDS FlashResource, FiniteSets

CONSTANTS
  Programs,    \* [text, rodata, data, bss, entry, symbols]
  Places,      \* where memory may be: [got, bss, data -> address]
  Room         \* the size of a region

VARIABLES
  hdr,         \* struct user_exec_program_header
  addrs,       \* struct user_exec_program_addrs
  ram,         \* address -> word
  i            \* the loop of the GOT

loadVars == <<hdr, addrs, ram, i>>
vars == <<flashVars, loadVars>>

-----------------------------------------------------------------------------
(* USER_TASK.ld: the header, then the sections from offset 0 of the file.  *)
(* It does not name .got; the linker puts it behind .data.                 *)

HeaderWordsOfProgram == 14
Segments == {"text", "rodata", "data", "bss"}

SegmentSize(p, seg) == 4 * (IF seg = "bss" THEN p.bss ELSE Len(p[seg]))

TextAt == 4 * HeaderWordsOfProgram
RodataAt(p) == TextAt + SegmentSize(p, "text")
DataAt(p) == RodataAt(p) + SegmentSize(p, "rodata")
GotAt(p) == DataAt(p) + SegmentSize(p, "data")
BssAt(p) == GotAt(p) + 4 * Len(p.symbols)

LinkedAt(p, seg) ==
  IF seg = "text" THEN TextAt
  ELSE IF seg = "rodata" THEN RodataAt(p)
  ELSE IF seg = "data" THEN DataAt(p)
  ELSE BssAt(p)

\* A GOT entry holds the offset of its symbol, which may be the end of a segment.
GotWord(p, sym) == LinkedAt(p, sym.seg) + 4 * sym.at

Linked(p) ==
  <<TextAt, SegmentSize(p, "text"), TextAt + 4 * p.entry, 4,
    GotAt(p), 4 * Len(p.symbols), BssAt(p), SegmentSize(p, "bss"),
    DataAt(p), SegmentSize(p, "data"), RodataAt(p), SegmentSize(p, "rodata"), 1024, 1024>>
  \o p.text \o p.rodata \o p.data
  \o [k \in 1 .. Len(p.symbols) |-> GotWord(p, p.symbols[k])]
  \o [k \in 1 .. p.bss |-> 0]

\* Segments that fit their regions, and regions apart from each other and from
\* the flash.
ASSUME LoadAssumption ==
  /\ \A p \in Programs :
       /\ p.text \in Seq(Int) /\ p.rodata \in Seq(Int) /\ p.data \in Seq(Int)
       /\ p.bss \in Nat /\ p.entry \in 0 .. Len(p.text) - 1
       /\ p.symbols \in Seq([seg : Segments, at : Nat])
       /\ \A seg \in Segments : SegmentSize(p, seg) <= Room
       /\ 4 * Len(p.symbols) <= Room
  /\ \A e \in Entries : \E p \in Programs : e.payload = Linked(p)
  /\ Room \in Nat
  /\ \A place \in Places, r \in {"got", "bss", "data"} :
       /\ place[r] \in Nat /\ place[r] % 4 = 0 /\ place[r] > SpanStart + SpanSize
       /\ \A s \in {"got", "bss", "data"} \ {r} :
            place[r] + Room <= place[s] \/ place[s] + Room <= place[r]

-----------------------------------------------------------------------------
(* test_userload.c                                                         *)

NoHdr == [text_offset |-> 0, text_size |-> 0, start_offset |-> 0, got_offset |-> 0,
          got_size |-> 0, bss_offset |-> 0, bss_size |-> 0, data_offset |-> 0,
          data_size |-> 0, rodata_offset |-> 0, rodata_size |-> 0]

NoAddrs == [text |-> 0, start |-> 0, got |-> 0, bss |-> 0, data |-> 0, rodata |-> 0]

\* user_exec_program_parse_header: word by word, and no bounds are checked.
ParsedHeader(at) ==
  LET word(k) == Read(at + 4 * k)
  IN [text_offset |-> word(0), text_size |-> word(1), start_offset |-> word(2),
      got_offset |-> word(4), got_size |-> word(5), bss_offset |-> word(6),
      bss_size |-> word(7), data_offset |-> word(8), data_size |-> word(9),
      rodata_offset |-> word(10), rodata_size |-> word(11)]

ParseHeader ==
  /\ pc = "found"
  /\ hdr' = ParsedHeader(pak.start)
  /\ pc' = "parsed"
  /\ UNCHANGED <<flash, image, end, span, name, cursor, pak, addrs, ram, i>>

\* The words of the regions.
Cells(place) ==
  {place[r] + 4 * k : r \in {"got", "bss", "data"}, k \in 0 .. Room \div 4 - 1}

\* The regions have been zeroed.
Allocate ==
  /\ pc = "parsed"
  /\ \E place \in Places :
       /\ addrs' = [NoAddrs EXCEPT !.got = place["got"], !.bss = place["bss"],
                                   !.data = place["data"]]
       /\ ram' = [a \in Cells(place) |-> 0]
  /\ pc' = "xip"
  /\ UNCHANGED <<flash, image, end, span, name, cursor, pak, hdr, i>>

AllocateFails ==
  /\ pc = "parsed"
  /\ pc' = "nomem"
  /\ UNCHANGED <<flash, image, end, span, name, cursor, pak, loadVars>>

\* Faulty variant: the header is forgotten where an offset is turned into an
\* address.
XipAddrsFromText ==
  [addrs EXCEPT !.text = pak.start, !.start = pak.start + hdr.start_offset,
                !.rodata = pak.start + hdr.rodata_offset]

\* Text and rodata are used where they are.
XipAddrs ==
  [addrs EXCEPT !.text = pak.start + hdr.text_offset,
                !.start = pak.start + hdr.start_offset,
                !.rodata = pak.start + hdr.rodata_offset]

SetXip ==
  /\ pc = "xip"
  /\ addrs' = XipAddrs
  /\ pc' = "data"
  /\ UNCHANGED <<flash, image, end, span, name, cursor, pak, hdr, ram, i>>

-----------------------------------------------------------------------------
(* user_exec.c                                                             *)

\* kern_memcpy from the payload.
SetupData ==
  /\ pc = "data"
  /\ ram' = [a \in DOMAIN ram |->
               IF a \in addrs.data .. addrs.data + hdr.data_size - 1
               THEN Read(pak.start + hdr.data_offset + (a - addrs.data)) ELSE ram[a]]
  /\ pc' = "bss"
  /\ UNCHANGED <<flash, image, end, span, name, cursor, pak, hdr, addrs, i>>

\* rodata needs nothing; bss is zeroed.
SetupBss ==
  /\ pc = "bss"
  /\ ram' = [a \in DOMAIN ram |->
               IF a \in addrs.bss .. addrs.bss + hdr.bss_size - 1 THEN 0 ELSE ram[a]]
  /\ pc' = "got" /\ i' = 0
  /\ UNCHANGED <<flash, image, end, span, name, cursor, pak, hdr, addrs>>

\* is_in_range
InRange(val, start, len) == val >= start /\ val < start + len

\* The segments in the order they are tried, and their places in the header.
Tried == <<"bss", "text", "data", "rodata">>
Offset(seg) ==
  IF seg = "bss" THEN hdr.bss_offset
  ELSE IF seg = "text" THEN hdr.text_offset
  ELSE IF seg = "data" THEN hdr.data_offset
  ELSE hdr.rodata_offset
Size(seg) ==
  IF seg = "bss" THEN hdr.bss_size
  ELSE IF seg = "text" THEN hdr.text_size
  ELSE IF seg = "data" THEN hdr.data_size
  ELSE hdr.rodata_size

Holding(val) == {n \in 1 .. 4 : InRange(val, Offset(Tried[n]), Size(Tried[n]))}

Relocated(val) ==
  LET seg == Tried[CHOOSE n \in Holding(val) : \A m \in Holding(val) : n <= m]
  IN addrs[seg] + (val - Offset(seg))

\* One round of the loop of user_exec_program_setup_got_segment.
GotStep ==
  /\ pc = "got" /\ i < hdr.got_size
  /\ LET val == Read(pak.start + hdr.got_offset + i)
     IN \/ /\ Holding(val) # {}
           /\ ram' = [ram EXCEPT ![addrs.got + i] = Relocated(val)]
           /\ i' = i + 4
           /\ UNCHANGED pc
        \/ /\ Holding(val) = {}
           /\ pc' = "refused"
           /\ UNCHANGED <<ram, i>>
  /\ UNCHANGED <<flash, image, end, span, name, cursor, pak, hdr, addrs>>

\* The task is created and started.
Start ==
  /\ pc = "got" /\ i >= hdr.got_size
  /\ pc' = "started"
  /\ UNCHANGED <<flash, image, end, span, name, cursor, pak, loadVars>>

-----------------------------------------------------------------------------

Init ==
  /\ FlashInit
  /\ hdr = NoHdr /\ addrs = NoAddrs /\ ram = << >> /\ i = 0

Next ==
  \/ FlashNext /\ UNCHANGED loadVars
  \/ ParseHeader \/ Allocate \/ AllocateFails \/ SetXip
  \/ SetupData \/ SetupBss \/ GotStep \/ Start

\* One thread, and nothing it waits for.
Spec == Init /\ [][Next]_vars /\ WF_vars(Next)

-----------------------------------------------------------------------------
(* Properties.                                                             *)

Numbers == -1000 .. SpanStart + SpanSize + 1000

TypeOK ==
  /\ FlashTypeOK
  /\ hdr \in [DOMAIN NoHdr -> Nat]
  /\ addrs \in [DOMAIN NoAddrs -> Nat]
  /\ \A a \in DOMAIN ram : ram[a] \in Int
  /\ i \in Nat

\* The program that was found.
IsProgram(p) ==
  \E n \in 1 .. Len(image) :
    /\ FoundAt(n)
    /\ image[n].payload = Linked(p)

\* A symbol that is in its segment, and not at the end of it.
Inside(p, sym) == 4 * sym.at < SegmentSize(p, sym.seg)

\* What the program was linked to find there.
Content(p, sym) == IF sym.seg = "bss" THEN 0 ELSE p[sym.seg][sym.at + 1]

At(a) == IF a \in DOMAIN ram THEN ram[a] ELSE Read(a)

\* Through each GOT entry the program finds, wherever its segments are, the
\* word it was linked with, and it starts at its entry point.  It is refused
\* only if it names the end of a segment.
Loaded(p) ==
  /\ At(addrs.start) = p.text[p.entry + 1]
  /\ \A n \in 1 .. Len(p.symbols) :
       LET sym == p.symbols[n]
           entry == ram[addrs.got + 4 * (n - 1)]
       IN Inside(p, sym) => /\ entry = addrs[sym.seg] + 4 * sym.at
                            /\ At(entry) = Content(p, sym)

LoadedAsLinked ==
  /\ pc = "started" => \E p \in Programs : IsProgram(p) /\ Loaded(p)
  /\ pc = "refused" =>
       \E p \in Programs :
         IsProgram(p) /\ \E n \in 1 .. Len(p.symbols) : ~Inside(p, p.symbols[n])

\* The reader and the loader come to an end, whatever is in flash.
LoadEnds == <>(pc \in {"missing", "nomem", "refused", "started"})
=============================================================================
