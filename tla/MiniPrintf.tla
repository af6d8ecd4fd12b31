----------------------------- MODULE MiniPrintf -----------------------------
(***************************************************************************)
(* miniprintf.c: the printf the other benchmarks are linked with.  It      *)
(* knows %d %u %s %c %% and the qualifier l, and writes one character at a *)
(* time through _write (syscalls_uart.c).  One action per turn of its loop.*)
(* Here it serves the call ee_printf has served.  Its formats end with a   *)
(* complete directive, as every format in the repository does.             *)
(***************************************************************************)
EXTENDS EePrintf

CONSTANT MiniCalls  \* the calls both formatters are meant for

ASSUME MiniCallsAssumption == MiniCalls \subseteq Calls

VARIABLE mini       \* p, the arguments used, n, what _write has sent, finished

MiniInit == mini = [p |-> 1, used |-> 0, n |-> 0, out |-> <<>>, done |-> FALSE]

(* _write stores the characters one after the other to UART_TXDATA.        *)
Write(out, chars) == out \o chars

PrintStr(s) == s
PrintUint(v) == DigitsOf(v, 10, Lower)
(* Variant: a negative number loses its sign's complement.                 *)
PrintIntUnsigned(v) == PrintUint(v)
PrintInt(v) == IF Signed(v) < 0 THEN <<"-">> \o PrintUint(Neg(v)) ELSE PrintUint(v)

MiniLiteral ==
  /\ CharAt(mini.p) \notin {"%", NUL}
  /\ mini' = [mini EXCEPT !.p = @ + 1, !.n = @ + 1, !.out = Write(@, <<CharAt(mini.p)>>)]

(* An unknown letter is written after a %; l only widens the argument.     *)
MiniDirective ==
  LET at_conv == IF CharAt(mini.p + 1) = "l" THEN mini.p + 2 ELSE mini.p + 1
      c == CharAt(at_conv)
      takes == c \in {"d", "u", "s", "c"}
      x == call.args[mini.used + 1]
      text == CASE c = "d" -> PrintInt(x)
                [] c = "u" -> PrintUint(x)
                [] c = "s" -> PrintStr(x)
                [] c = "c" -> <<x>>
                [] c = "%" -> <<"%">>
                [] OTHER   -> <<"%", c>>
  IN /\ CharAt(mini.p) = "%"
     /\ mini' = [mini EXCEPT !.p = at_conv + 1, !.used = @ + (IF takes THEN 1 ELSE 0),
                             !.out = Write(@, text)]

MiniReturn == CharAt(mini.p) = NUL /\ ~mini.done /\ mini' = [mini EXCEPT !.done = TRUE]

MiniNext == MiniLiteral \/ MiniDirective \/ MiniReturn

-----------------------------------------------------------------------------
(* The call goes to ee_printf, then to printf if both are meant for it.    *)
pvars == <<call, stage, at, used, spec, buf, uart, mini>>

PInit == EeInit /\ MiniInit
EeTurn == EeNext /\ UNCHANGED mini
MiniTurn == stage = "sent" /\ call \in MiniCalls /\ MiniNext /\ UNCHANGED eevars
PNext == EeTurn \/ MiniTurn

-----------------------------------------------------------------------------
(* The scanner never looks behind the end of the format, however the       *)
(* format breaks off: after %, a flag, a width, a point or a qualifier     *)
(* (ee_printf.c:487-545, and the step back at 644).                        *)
ScannerInside == at <= Len(call.fmt) + 1

(* What a number directive writes is a number of the right value, sign,    *)
(* prefix and least number of digits, in a field of exactly the width      *)
(* asked for unless it needs more, filled on the right side and with the   *)
(* right character, for every combination of flags (ee_printf.c:53-140).   *)
Piece == SubSeq(buf', Len(buf) + 1, Len(buf'))

FieldIsNumber ==
  LET c        == Char
      flags    == spec.flags
      signed   == c \in {"d", "i"}
      base     == CASE c = "o" -> 8 [] c \in {"d", "i", "u"} -> 10 [] OTHER -> 16
      value    == IF signed THEN Signed(Arg(1)) ELSE Arg(1)
      size     == IF value < 0 THEN -value ELSE value
      sign     == IF ~signed THEN 0
                  ELSE IF value < 0 \/ flags \cap {"PLUS", "SPACE"} # {} THEN 1 ELSE 0
      prefix   == IF "HEX_PREP" \notin flags THEN 0 ELSE CASE base = 8 -> 1 [] base = 16 -> 2 [] OTHER -> 0
      least    == Larger(spec.precision, DigitCount(size, base))
      width    == IF c = "p" /\ spec.field_width = -1 THEN W \div 4 ELSE spec.field_width
      fill     == Larger(width - sign - prefix - least, 0)
      zeros    == "LEFT" \notin flags /\ ("ZEROPAD" \in flags \/ width # spec.field_width)
      before   == IF zeros \/ "LEFT" \in flags THEN 0 ELSE fill
      after    == IF "LEFT" \in flags THEN fill ELSE 0
      digits   == SubSeq(Piece, before + sign + prefix + 1, Len(Piece) - after)
      expected == CASE value < 0 -> "-" [] value >= 0 /\ "PLUS" \in flags -> "+" [] OTHER -> " "
  IN /\ Len(Piece) = sign + prefix + least + fill
     /\ \A k \in 1 .. before : Piece[k] = " "
     /\ \A k \in Len(Piece) - after + 1 .. Len(Piece) : Piece[k] = " "
     /\ sign = 1 => Piece[before + 1] = expected
     /\ prefix > 0 => Piece[before + sign + 1] = "0"
     /\ prefix = 2 => Piece[before + sign + 2] = "x"
     /\ FoldLeft(LAMBDA v, d : base * v + DigitValue(d), 0, digits) = size

NumberFields == [][Convert /\ Char \in {"p", "o", "x", "X", "d", "i", "u"} => FieldIsNumber]_pvars

(* Every argument of the call is used, a width and a precision taken from  *)
(* the arguments included, and no more than the call passes                *)
(* (ee_printf.c:507-536, 546-656).                                         *)
ArgumentsUsedUp == used <= Len(call.args) /\ (stage = "sent" => used = Len(call.args))

(* A format has as many arguments as it asks for by its grammar: after %   *)
(* flags, a width, a point and a precision, a qualifier and a letter, all  *)
(* but the letter optional; a width or precision may be *.  Where in the   *)
(* directive at k these are:                                               *)
WidthAt(fmt, k)   == RunEnd(fmt, DOMAIN FlagOf, k + 1)
NumberEnd(fmt, k) == IF CharIn(fmt, k) = "*" THEN k + 1 ELSE RunEnd(fmt, Digit, k)
PointAt(fmt, k)   == NumberEnd(fmt, WidthAt(fmt, k))
QualifierAt(fmt, k) ==
  LET p == PointAt(fmt, k) IN IF CharIn(fmt, p) = "." THEN NumberEnd(fmt, p + 1) ELSE p
LetterAt(fmt, k) ==
  LET q == QualifierAt(fmt, k) IN IF CharIn(fmt, q) \in {"l", "L"} THEN q + 1 ELSE q

(* The characters that stand for an argument.                              *)
Stars(fmt, k) ==
  {WidthAt(fmt, k)} \cup (IF CharIn(fmt, PointAt(fmt, k)) = "." THEN {PointAt(fmt, k) + 1} ELSE {})
DirectiveArgs(fmt, k) ==
  {x \in Stars(fmt, k) : CharIn(fmt, x) = "*"} \cup {x \in {LetterAt(fmt, k)} : CharIn(fmt, x) \in Takes}

(* T are the places where a literal character or a directive begins, and   *)
(* where the format ends.                                                  *)
PieceEnd(fmt, k) ==
  IF CharIn(fmt, k) # "%" THEN k + 1
  ELSE IF CharIn(fmt, LetterAt(fmt, k)) = NUL THEN LetterAt(fmt, k) ELSE LetterAt(fmt, k) + 1
Pieces(fmt, T) ==
  /\ 1 \in T
  /\ \A k \in T : IF CharIn(fmt, k) = NUL THEN T \subseteq 1 .. k
                 ELSE PieceEnd(fmt, k) \in T /\ T \cap (k + 1 .. PieceEnd(fmt, k) - 1) = {}

ArgumentsIn(fmt, T) == UNION {DirectiveArgs(fmt, k) : k \in {j \in T : CharIn(fmt, j) = "%"}}
Matched(c) ==
  \E T \in SUBSET (1 .. Len(c.fmt) + 1) :
    Pieces(c.fmt, T) /\ Cardinality(ArgumentsIn(c.fmt, T)) = Len(c.args)
ArgumentsMatch == \A c \in Calls : Matched(c)

(* The two formatters send the same characters to the UART for what both   *)
(* are meant for (ee_printf.c:461-700 and miniprintf.c:21-41).             *)
FormattersAgree == mini.done => mini.out = uart
=============================================================================
