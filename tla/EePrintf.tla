------------------------------ MODULE EePrintf ------------------------------
(***************************************************************************)
(* ee_printf.c: the formatter CoreMark prints its report with.  A format   *)
(* is a sequence of one-character strings, with NUL read at its end; an    *)
(* argument is a word, a string (a sequence of characters) or an address   *)
(* (a sequence of bytes), in the order of the call.  One action per stage  *)
(* of the scanner.  long and int are both W bits wide, as on RV32.         *)
(***************************************************************************)
EXTENDS Words, SequencesExt

CONSTANT Calls      \* the calls made: records of a format and its arguments

ASSUME CallsAssumption == \A c \in Calls : DOMAIN c = {"fmt", "args"} /\ c.fmt \in Seq(STRING)

VARIABLES call,     \* the call being served
          stage,    \* where the scanner is inside a directive
          at,       \* fmt: index of the next character
          used,     \* how many arguments va_arg has handed out
          spec,     \* flags, field_width, precision and qualifier
          buf,      \* buf up to str
          uart      \* characters stored to the UART data register

eevars == <<call, stage, at, used, spec, buf, uart>>

NUL == ""
NullString == <<NUL>>       \* a null pointer where a string is expected
Digit == {"0", "1", "2", "3", "4", "5", "6", "7", "8", "9"}
Lower == <<"0", "1", "2", "3", "4", "5", "6", "7", "8", "9", "a", "b", "c", "d", "e", "f">>
Upper == <<"0", "1", "2", "3", "4", "5", "6", "7", "8", "9", "A", "B", "C", "D", "E", "F">>
FlagOf == [c \in {"-", "+", " ", "#", "0"} |->
             CASE c = "-" -> "LEFT" [] c = "+" -> "PLUS" [] c = " " -> "SPACE"
               [] c = "#" -> "HEX_PREP" [] OTHER -> "ZEROPAD"]
NoSpec == [flags |-> {}, field_width |-> -1, precision |-> -1, qualifier |-> "none"]

CharIn(fmt, k) == IF k <= Len(fmt) THEN fmt[k] ELSE NUL
CharAt(k) == CharIn(call.fmt, k)
Char == CharAt(at)
Arg(n) == call.args[used + n]

Rep(c, n) == [k \in 1 .. n |-> c]
Larger(a, b) == IF a > b THEN a ELSE b
DigitValue(c) == (CHOOSE k \in 1 .. 16 : Lower[k] = c \/ Upper[k] = c) - 1

(* Where characters of C from k on end.                                    *)
RunEnd(fmt, C, k) == CHOOSE e \in k .. Len(fmt) + 1 :
                       CharIn(fmt, e) \notin C /\ \A j \in k .. e - 1 : CharIn(fmt, j) \in C

(* skip_atoi: where the digits from k on end, and the number they spell.   *)
DigitsEnd(k) == RunEnd(call.fmt, Digit, k)
AtoI(k) == FoldLeft(LAMBDA v, c : 10 * v + DigitValue(c), 0, SubSeq(call.fmt, k, DigitsEnd(k) - 1))

StrNLen(s, count) == IF count >= 0 /\ count < Len(s) THEN count ELSE Len(s)

(* The digits of an unsigned number, most significant first.               *)
DigitCount(num, base) == CHOOSE n \in 1 .. W : num < base^n /\ (n = 1 \/ num >= base^(n-1))
DigitsOf(num, base, dig) ==
  LET n == DigitCount(num, base) IN [k \in 1 .. n |-> dig[1 + ((num \div base^(n - k)) % base)]]

(* Text in a field: blanks go before it, or after it with LEFT.            *)
Padded(text, width, flags) ==
  LET blanks == Rep(" ", width - Len(text))
  IN IF "LEFT" \in flags THEN text \o blanks ELSE blanks \o text

(* Variant: a field that is justified left is filled with zeros too.       *)
NumberZerosAfter(num, base, size, precision, flags) ==
  LET text == DigitsOf(num, base, Lower)
  IN IF "ZEROPAD" \in flags THEN text \o Rep("0", size - Len(text)) ELSE Padded(text, size, flags)

(* Negating the least number leaves it as it is, and its digits are then   *)
(* taken as an unsigned number's.                                          *)
Number(num, base, size, precision, flags) ==
  LET negative == "SIGN" \in flags /\ Signed(num) < 0
      sign     == CASE negative -> <<"-">>
                    [] "SIGN" \notin flags -> <<>>
                    [] ~negative /\ {"SIGN", "PLUS"} \subseteq flags -> <<"+">>
                    [] ~negative /\ {"SIGN", "SPACE"} \subseteq flags /\ "PLUS" \notin flags -> <<" ">>
                    [] OTHER -> <<>>
      prefix   == CASE "HEX_PREP" \in flags /\ base = 8 -> <<"0">>
                    [] "HEX_PREP" \in flags /\ base = 16 -> <<"0", "x">>
                    [] OTHER -> <<>>
      digits   == DigitsOf(IF negative THEN Neg(num) ELSE num, base,
                           IF "UPPERCASE" \in flags THEN Upper ELSE Lower)
      body     == Rep("0", precision - Len(digits)) \o digits
      zeros    == size - Len(sign \o prefix \o body)
  IN IF "ZEROPAD" \in flags /\ "LEFT" \notin flags
     THEN sign \o prefix \o Rep("0", zeros) \o body
     ELSE Padded(sign \o prefix \o body, size, flags)

(* A hardware address in hexadecimal, and an IP address in decimal.        *)
Joined(parts, separator) ==
  Tail(FlattenSeq([k \in DOMAIN parts |-> <<separator>> \o parts[k]]))
Eaddr(addr, size, flags) ==
  LET dig == IF "UPPERCASE" \in flags THEN Upper ELSE Lower
  IN Padded(Joined([k \in 1 .. 6 |-> <<dig[1 + (addr[k] \div 16)], dig[1 + (addr[k] % 16)]>>], ":"),
            size, flags)
Iaddr(addr, size, flags) ==
  Padded(Joined([k \in 1 .. 4 |-> DigitsOf(addr[k], 10, Lower)], "."), size, flags)

-----------------------------------------------------------------------------
EeReady == stage = "text" /\ at = 1 /\ used = 0 /\ spec = NoSpec /\ buf = <<>> /\ uart = <<>>
EeInit == call \in Calls /\ EeReady

Literal ==
  /\ stage = "text" /\ Char \notin {"%", NUL}
  /\ buf' = Append(buf, Char) /\ at' = at + 1
  /\ UNCHANGED <<call, stage, used, spec, uart>>

Percent ==
  /\ stage = "text" /\ Char = "%"
  /\ stage' = "flags" /\ at' = at + 1 /\ spec' = NoSpec
  /\ UNCHANGED <<call, used, buf, uart>>

(* Variant: the scanner looks at the same flag again.                      *)
FlagAgain ==
  /\ stage = "flags" /\ Char \in DOMAIN FlagOf
  /\ spec' = [spec EXCEPT !.flags = @ \cup {FlagOf[Char]}]
  /\ UNCHANGED <<call, stage, at, used, buf, uart>>

Flag ==
  /\ stage = "flags" /\ Char \in DOMAIN FlagOf
  /\ spec' = [spec EXCEPT !.flags = @ \cup {FlagOf[Char]}] /\ at' = at + 1
  /\ UNCHANGED <<call, stage, used, buf, uart>>

(* A negative width from the arguments asks for LEFT.                      *)
FieldWidth ==
  /\ stage = "flags" /\ Char \notin DOMAIN FlagOf
  /\ stage' = "precision"
  /\ \/ /\ Char \in Digit
        /\ spec' = [spec EXCEPT !.field_width = AtoI(at)]
        /\ at' = DigitsEnd(at) /\ UNCHANGED used
     \/ /\ Char = "*"
        /\ LET w == Signed(Arg(1))
           IN spec' = IF w < 0 THEN [spec EXCEPT !.field_width = -w, !.flags = @ \cup {"LEFT"}]
                      ELSE [spec EXCEPT !.field_width = w]
        /\ at' = at + 1 /\ used' = used + 1
     \/ /\ Char \notin Digit \cup {"*"}
        /\ UNCHANGED <<spec, at, used>>
  /\ UNCHANGED <<call, buf, uart>>

(* A point with nothing after it, or a negative precision, is precision 0. *)
Precision ==
  /\ stage = "precision"
  /\ stage' = "qualifier"
  /\ \/ /\ Char # "." /\ UNCHANGED <<spec, at, used>>
     \/ /\ Char = "." /\ CharAt(at + 1) \in Digit
        /\ spec' = [spec EXCEPT !.precision = AtoI(at + 1)]
        /\ at' = DigitsEnd(at + 1) /\ UNCHANGED used
     \/ /\ Char = "." /\ CharAt(at + 1) = "*"
        /\ spec' = [spec EXCEPT !.precision = Larger(Signed(Arg(1)), 0)]
        /\ at' = at + 2 /\ used' = used + 1
     \/ /\ Char = "." /\ CharAt(at + 1) \notin Digit \cup {"*"}
        /\ spec' = [spec EXCEPT !.precision = 0]
        /\ at' = at + 1 /\ UNCHANGED used
  /\ UNCHANGED <<call, buf, uart>>

Qualifier ==
  /\ stage = "qualifier"
  /\ stage' = "convert"
  /\ IF Char \in {"l", "L"}
     THEN spec' = [spec EXCEPT !.qualifier = Char] /\ at' = at + 1
     ELSE UNCHANGED <<spec, at>>
  /\ UNCHANGED <<call, used, buf, uart>>

-----------------------------------------------------------------------------
Takes == {"c", "s", "p", "a", "A", "o", "x", "X", "d", "i", "u"}

(* What a directive that takes an argument writes for it.                  *)
Field(c, x) ==
  LET w == spec.field_width
      flags == spec.flags \cup (IF c \in {"A", "X"} THEN {"UPPERCASE"} ELSE {})
                          \cup (IF c \in {"d", "i"} THEN {"SIGN"} ELSE {})
      bare_pointer == c = "p" /\ w = -1
  IN CASE c = "c" -> Padded(<<x>>, w, flags)
       [] c = "s" -> LET s == IF x = NullString THEN <<"<", "N", "U", "L", "L", ">">> ELSE x
                     IN Padded(SubSeq(s, 1, StrNLen(s, spec.precision)), w, flags)
       [] c = "p" -> Number(x, 16, IF bare_pointer THEN W \div 4 ELSE w, spec.precision,
                            IF bare_pointer THEN flags \cup {"ZEROPAD"} ELSE flags)
       [] c \in {"a", "A"} -> IF spec.qualifier = "l" THEN Eaddr(x, w, flags) ELSE Iaddr(x, w, flags)
       [] OTHER -> Number(x, CASE c = "o" -> 8 [] c \in {"x", "X"} -> 16 [] OTHER -> 10,
                          w, spec.precision, flags)

Convert ==
  /\ stage = "convert" /\ Char \in Takes
  /\ buf' = buf \o Field(Char, Arg(1))
  /\ used' = used + 1 /\ at' = at + 1 /\ stage' = "text"
  /\ UNCHANGED <<call, spec, uart>>

(* Variant: the scanner does not step back from the end of the format.     *)
UnknownPast ==
  /\ stage = "convert" /\ Char \notin Takes
  /\ buf' = buf \o (IF Char = "%" THEN <<>> ELSE <<"%">>) \o (IF Char = NUL THEN <<>> ELSE <<Char>>)
  /\ at' = at + 1
  /\ stage' = "text"
  /\ UNCHANGED <<call, used, spec, uart>>

(* Variant: an unknown letter takes an argument.                           *)
UnknownTakes ==
  /\ stage = "convert" /\ Char \notin Takes
  /\ buf' = buf \o <<"%", Char>>
  /\ at' = IF Char = NUL THEN at ELSE at + 1
  /\ used' = used + 1 /\ stage' = "text"
  /\ UNCHANGED <<call, spec, uart>>

(* Anything else stands for itself, with the % unless it is one; at the    *)
(* end of the format the scanner stays there.                              *)
Unknown ==
  /\ stage = "convert" /\ Char \notin Takes
  /\ buf' = buf \o (IF Char = "%" THEN <<>> ELSE <<"%">>) \o (IF Char = NUL THEN <<>> ELSE <<Char>>)
  /\ at' = IF Char = NUL THEN at ELSE at + 1
  /\ stage' = "text"
  /\ UNCHANGED <<call, used, spec, uart>>

EndOfFormat ==
  /\ stage = "text" /\ Char = NUL
  /\ stage' = "send"
  /\ UNCHANGED <<call, at, used, spec, buf, uart>>

(* The buffer goes out up to its first NUL.                                *)
NextOut == IF Len(uart) < Len(buf) THEN buf[Len(uart) + 1] ELSE NUL

SendChar ==
  /\ stage = "send" /\ NextOut # NUL
  /\ uart' = Append(uart, NextOut)
  /\ UNCHANGED <<call, stage, at, used, spec, buf>>

Sent ==
  /\ stage = "send" /\ NextOut = NUL
  /\ stage' = "sent"
  /\ UNCHANGED <<call, at, used, spec, buf, uart>>

EeNext ==
  \/ Literal \/ Percent \/ Flag \/ FieldWidth \/ Precision \/ Qualifier
  \/ Convert \/ Unknown \/ EndOfFormat \/ SendChar \/ Sent
=============================================================================
