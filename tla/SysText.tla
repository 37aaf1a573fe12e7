------------------------------ MODULE SysText ------------------------------
(***************************************************************************)
(* The decoding of PEM files by sys.cpp: the base64 part of the file is    *)
(* found between its "-----" lines, then decoded four characters at a      *)
(* time.  Characters are their codes.                                      *)
(***************************************************************************)
EXTENDS Integers, Sequences, SequencesExt

VARIABLES
  b64,    (* Characters still to be decoded.                               *)
  data,   (* Decoded bytes.                                                *)
  bad     (* An invalid character was met: the program has ended.          *)

textvars == <<b64, data, bad>>

Newline == 10
Dash == 45
Equal == 61
IsSpace(c) == c \in (9 .. 13) \cup {32}
NotBase64 == 64

(* base64_to_integer(), NotBase64 where it is fatal. *)
base64_to_integer(c) ==
  CASE c \in 65 .. 90  -> c - 65
    [] c \in 97 .. 122 -> c - 97 + 26
    [] c \in 48 .. 57  -> c - 48 + 52
    [] c = 43          -> 62
    [] c = 47          -> 63
    [] OTHER           -> NotBase64

(* base64_update() on a buffer of up to four characters: how many of them  *)
(* are converted, and the bytes they make, truncated to eight bits.        *)
Converted(buf) ==
  CASE Len(buf) < 2                               -> 0
    [] Len(buf) = 2 \/ (Len(buf) > 2 /\ buf[3] = Equal) -> 2
    [] Len(buf) = 3 /\ buf[3] # Equal              -> 3
    [] Len(buf) = 4 /\ buf[3] # Equal              -> IF buf[4] = Equal THEN 3 ELSE 4

Valid(buf) == \A i \in 1 .. Converted(buf) : base64_to_integer(buf[i]) # NotBase64

(* Shifts of a character to the left, and of the one after it to the       *)
(* right, by 2, 4 or 6 bits and 4, 2 or none.                              *)
Left == <<4, 16, 64>>
Right == <<16, 4, 1>>

(* Mutant of BytesOf: the low bits of a byte are not merged in. *)
BytesOfShifted(buf) ==
  LET c(i) == base64_to_integer(buf[i])
      Byte(i) == (c(i) * Left[i]) % 256
  IN  [i \in 1 .. Converted(buf) - 1 |-> Byte(i)]

(* Mutant of BytesOf: bytes are not truncated. *)
BytesOfWide(buf) ==
  LET c(i) == base64_to_integer(buf[i])
      Byte(i) == c(i) * Left[i] + c(i + 1) \div Right[i]
  IN  [i \in 1 .. Converted(buf) - 1 |-> Byte(i)]

BytesOf(buf) ==
  LET c(i) == base64_to_integer(buf[i])
      Byte(i) == ((c(i) * Left[i]) % 256) + c(i + 1) \div Right[i]
  IN  [i \in 1 .. Converted(buf) - 1 |-> Byte(i)]

(* The part of a file between its "-----" lines, as load_pem_file_as_der() *)
(* cuts it out: forwards for the header, backwards for the footer.         *)
DropWhile(s, Test(_)) ==
  LET kept == {i \in 1 .. Len(s) : ~ Test(s[i])}
  IN  IF kept = {} THEN <<>> ELSE SubSeq(s, Min(kept), Len(s))
WithoutDashes(s) ==
  IF Len(s) > 5 /\ s[1] = Dash /\ s[2] = Dash
    THEN DropWhile(DropWhile(s, LAMBDA c : c # Newline), IsSpace)
    ELSE s
Base64Part(pem) == Reverse(WithoutDashes(DropWhile(Reverse(WithoutDashes(pem)), IsSpace)))

InitText(pem) ==
  /\ b64 = Base64Part(pem)
  /\ data = <<>>
  /\ bad = FALSE

(* One pass of the loop of base64_decode(): the next four characters which *)
(* are not spaces, or what is left.                                        *)
Significant == {i \in 1 .. Len(b64) : ~ IsSpace(b64[i])}
Place(k) == CHOOSE i \in Significant : Cardinality({j \in Significant : j <= i}) = k

DecodeGroup ==
  /\ b64 # <<>> /\ ~ bad
  /\ LET buf_size == IF Cardinality(Significant) >= 4 THEN 4 ELSE Cardinality(Significant)
         n == IF buf_size = 4 THEN Place(4) ELSE Len(b64)
         buf == [k \in 1 .. buf_size |-> b64[Place(k)]]
     IN  IF Valid(buf)
           THEN /\ data' = data \o BytesOf(buf)
                /\ b64' = SubSeq(b64, n + 1, Len(b64))
                /\ bad' = FALSE
           ELSE bad' = TRUE /\ UNCHANGED <<b64, data>>

(* Mutant of DropBit: the mask starts again on the same byte. *)
DropBitSameByte(s) ==
  IF s.mask \div 2 = 0 THEN [bits |-> s.bits - 1, mask |-> 128, at |-> s.at]
                       ELSE [bits |-> s.bits - 1, mask |-> s.mask \div 2, at |-> s.at]

(* large_number_bits(), the body of its loop: the count of bits goes down, *)
(* the mask goes to the next bit, behind the last one to the next byte.    *)
DropBit(s) ==
  IF s.mask \div 2 = 0 THEN [bits |-> s.bits - 1, mask |-> 128, at |-> s.at + 1]
                       ELSE [bits |-> s.bits - 1, mask |-> s.mask \div 2, at |-> s.at]

(* A turn of the loop, as long as zeroes lead the number.                  *)
Turn(num, s) ==
  IF s.bits > 0 /\ (num[s.at] \div s.mask) % 2 = 0 THEN DropBit(s) ELSE s

large_number_bits(num) ==
  LET all == 8 * Len(num)
      turns[n \in 0 .. all] ==
        IF n = 0 THEN [bits |-> all, mask |-> 128, at |-> 1] ELSE Turn(num, turns[n - 1])
  IN  turns[all].bits

-----------------------------------------------------------------------------
(* What a key file should be: base64 of RFC 4648 between two lines, in     *)
(* lines of a given length.                                                *)

Alphabet(v) ==
  CASE v < 26 -> 65 + v
    [] v \in 26 .. 51 -> 97 + v - 26
    [] v \in 52 .. 61 -> 48 + v - 52
    [] v = 62 -> 43
    [] v = 63 -> 47

Sextets == <<262144, 4096, 64, 1>>   \* Where each character is in a group.

Encoded(bytes) ==
  LET n == Len(bytes)
      At(i) == IF i <= n THEN bytes[i] ELSE 0
      Value(g) == (At(3 * g + 1) * 256 + At(3 * g + 2)) * 256 + At(3 * g + 3)
      Char(g, p) == IF 3 * g + p > n + 1 THEN Equal ELSE Alphabet((Value(g) \div Sextets[p]) % 64)
  IN  [j \in 1 .. 4 * ((n + 2) \div 3) |-> Char((j - 1) \div 4, ((j - 1) % 4) + 1)]

PemFile(bytes, header, footer, eol, line) ==
  LET text == Encoded(bytes)
      Line(k) == SubSeq(text, line * (k - 1) + 1, Min({line * k, Len(text)})) \o eol
      lines == [k \in 1 .. (Len(text) + line - 1) \div line |-> Line(k)]
  IN  header \o eol \o FlattenSeq(lines) \o footer \o eol

(* The place of the end of the first line, and how many characters which   *)
(* are not spaces there are from there to place i.                         *)
IsFirstLine(pem, h) == pem[h] = Newline /\ \A i \in 1 .. h - 1 : pem[i] # Newline
Rank(pem, h, i) == Cardinality({j \in h + 1 .. i : ~ IsSpace(pem[j])})

(* A file of some bytes, or any first part of it: a line with dashes, then *)
(* base64 in lines of any length, with any spaces, then dashes.            *)
StartsPemFile(bytes, pem) ==
  /\ \A i \in 1 .. Len(pem) : i <= 2 => pem[i] = Dash
  /\ \A h \in 1 .. Len(pem) : IsFirstLine(pem, h) =>
       /\ h > 5
       /\ h < Len(pem) => ~ IsSpace(pem[h + 1])
       /\ \A i \in h + 1 .. Len(pem) : ~ IsSpace(pem[i]) =>
            LET rank == Rank(pem, h, i)
            IN  /\ rank <= Len(Encoded(bytes)) => pem[i] = Encoded(bytes)[rank]
                /\ rank = Len(Encoded(bytes)) + 1 => pem[i] = Dash

(* The value of a number in most significant byte first order.             *)
NumberOf(num) ==
  LET value[k \in 0 .. Len(num)] == IF k = 0 THEN 0 ELSE 256 * value[k - 1] + num[k]
  IN  value[Len(num)]

(* Powers of two.                                                          *)
PowerOf2(n) ==
  LET power[k \in 0 .. n] == IF k = 0 THEN 1 ELSE 2 * power[k - 1]
  IN  power[n]

=============================================================================
