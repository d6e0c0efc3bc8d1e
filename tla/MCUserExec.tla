----------------------------- MODULE MCUserExec -----------------------------
(* UserExec on a small instance. *)
EXTENDS UserExec

CONSTANTS a, b

Sym(seg, at) == [seg |-> seg, at |-> at]

\* The first uses every segment; the second has no rodata and a symbol at the
\* end of its text, which is where its data begins; the third has one at the
\* end of its bss.
MCPrograms ==
  {[text |-> <<-11, -12>>, rodata |-> <<-21>>, data |-> <<-31, -32>>, bss |-> 2, entry |-> 1,
    symbols |-> <<Sym("data", 1), Sym("bss", 1), Sym("rodata", 0), Sym("text", 0)>>],
   [text |-> <<-11>>, rodata |-> << >>, data |-> <<-31>>, bss |-> 1, entry |-> 0,
    symbols |-> <<Sym("text", 1), Sym("bss", 0), Sym("data", 0)>>],
   [text |-> <<-11, -12, -13>>, rodata |-> <<-21>>, data |-> << >>, bss |-> 1, entry |-> 2,
    symbols |-> <<Sym("text", 2), Sym("bss", 1)>>]}

\* One label is as long as what the header is aligned to.
LongLabel == [k \in 1 .. 32 |-> IF k % 2 = 0 THEN b ELSE a]
MCLabels == {<<a>>, <<a, b>>, <<b>>, LongLabel}
MCEntries == {[label |-> l, payload |-> Linked(p)] : l \in MCLabels, p \in MCPrograms}
MCNames == {<<a>>, <<a, b>>, <<a, b, a>>}
MCPlaces == {[got |-> 5000, bss |-> 5016, data |-> 5032], [got |-> 5016, bss |-> 5032, data |-> 5000]}
=============================================================================
