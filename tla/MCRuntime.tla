------------------------------ MODULE MCRuntime ------------------------------
(***************************************************************************)
(* Printing: every conversion with flags, widths, precisions and qualifiers   *)
(* that combine; formats that break off at every point; and calls with     *)
(* several directives, for both formatters.  Strings: every call on a      *)
(* memory of MemSize bytes that its precondition allows.                   *)
(***************************************************************************)
EXTENDS Runtime

Call(fmt, args) == [fmt |-> fmt, args |-> args]

Flags  == {<<>>, <<"-">>, <<"+">>, <<" ">>, <<"#">>, <<"0">>, <<"-", "0">>, <<" ", "+">>,
           <<"#", "0">>, <<"0", "+">>, <<"-", "+", "#">>}
(* A width or precision, with the arguments it takes.                      *)
Widths == {<<<<>>, <<>>>>, <<<<"7">>, <<>>>>, <<<<"1", "0">>, <<>>>>, <<<<"*">>, <<6>>>>,
           <<<<"*">>, <<WordMod - 6>>>>}
Precisions == {<<<<>>, <<>>>>, <<<<".">>, <<>>>>, <<<<".", "4">>, <<>>>>, <<<<".", "*">>, <<3>>>>,
               <<<<".", "*">>, <<WordMod - 1>>>>}
Numbers == {0, 1, HalfMod - 1, HalfMod, WordMod - 1, 10}
Texts   == {<<>>, <<"a">>, <<"a", "%", "b", "c", "d">>, NullString}

Directive(f, w, p, q, c, x) ==
  Call(<<"%">> \o f \o w[1] \o p[1] \o q \o <<c, "z">>, w[2] \o p[2] \o <<x>>)

FieldCalls ==
  {Directive(f, w, p, <<>>, c, x) : f \in Flags, w \in Widths, p \in Precisions,
     c \in {"o", "x", "X", "d", "u"}, x \in Numbers}
  \cup {Directive(f, w, <<<<>>, <<>>>>, q, c, x) : f \in {<<>>, <<"-">>, <<"0">>, <<"#">>}, w \in Widths,
          q \in {<<>>, <<"l">>}, c \in {"i", "p", "d"}, x \in Numbers}
  \cup {Directive(f, w, p, <<>>, "s", x) : f \in {<<>>, <<"-">>}, w \in Widths, p \in Precisions,
          x \in Texts}
  \cup {Directive(f, w, <<<<>>, <<>>>>, <<>>, "c", x) : f \in {<<>>, <<"-">>}, w \in Widths,
          x \in {"k", NUL}}
  \cup {Directive(f, w, <<<<>>, <<>>>>, <<"l">>, c, <<0, 16, 9, 171, 255, 1>>) : f \in {<<>>, <<"-">>},
          w \in {<<<<>>, <<>>>>, <<<<"2", "0">>, <<>>>>}, c \in {"a", "A"}}
  \cup {Directive(f, w, <<<<>>, <<>>>>, <<>>, "a", <<10, 0, 255, 107>>) : f \in {<<>>, <<"-">>},
          w \in {<<<<>>, <<>>>>, <<<<"2", "0">>, <<>>>>}}

BrokenOff ==
  {Call(<<"k">> \o s, <<>>) : s \in {<<"%">>, <<"%", "-">>, <<"%", "0", "7">>, <<"%", "7", ".">>,
     <<"%", ".", "4">>, <<"%", "l">>, <<"%", "+", ".", "l">>, <<"%", "q">>, <<"%", "l", "q", "z">>,
     <<"%", "7", "%">>}}
  \cup {Call(<<"%", "*">>, <<6>>), Call(<<"%", ".", "*">>, <<3>>)}

MCMiniCalls ==
  {Call(<<"k", "%">> \o q \o <<c, "=", "%", "u", "%", "s">>, <<x, y, t>>) : q \in {<<>>, <<"l">>},
     c \in {"d", "u"}, x \in Numbers, y \in {0, 10}, t \in Texts \ {NullString}}
  \cup {Call(<<"%", "c", "%", "%", "%", "d", "%", "q">>, <<c, x>>) : c \in {"k", "%"}, x \in Numbers}
  \cup {Call(<<"%", "s", "%", "l", "u", "k">>, <<t, x>>) : t \in Texts \ {NullString}, x \in Numbers}

(* What the theorem on the arguments assumes of the calls.                 *)
ASSUME CallsMatch == ArgumentsMatch

MCCalls == FieldCalls \cup BrokenOff \cup MCMiniCalls

Job(fn, d, s, n, c) == [fn |-> fn, d |-> d, s |-> s, n |-> n, c |-> c]

MCJobs ==
  {Job(fn, d, s, n, 0) : fn \in {"memmove", "memcpy", "memcmp"}, d \in Addr, s \in Addr, n \in 0 .. MemSize}
  \cup {Job("memset", d, 0, n, c) : d \in Addr, n \in 0 .. MemSize, c \in UChar}
  \cup {Job(fn, d, s, 0, 0) : fn \in {"strcpy", "strcmp"}, d \in Addr, s \in Addr}
  \cup {Job("strlen", 0, s, 0, 0) : s \in Addr}
  \cup {Job("strchr", 0, s, 0, c) : s \in Addr, c \in UChar}

MCRunLengths == {1, 77, HalfMod - 1, HalfMod, WordMod - 1}
MCBoot == {0, 1, HalfMod, WordMod - 1, WordMod - 77}
=============================================================================
