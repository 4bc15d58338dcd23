-------------------------------- MODULE TaxId --------------------------------
(***************************************************************************)
(* The tax id (taxid/provider.py), its check digit (taxid/verhoeff.py),    *)
(* and reading one back (serial_of in tools/serial.py).                    *)
(*                                                                         *)
(* A character is its code point, a number is the sequence of its digits.  *)
(***************************************************************************)
EXTENDS Integers, Sequences

CONSTANT SerialWidth   \* hex digits of a serial: 10 in the code

ASSUME TaxIdAssumption == SerialWidth \in Nat \ {0}

DayWidth     == 5
MemoryWidth  == 6

-----------------------------------------------------------------------------
(* Digits. *)

\* n in a base, padded with zeros to at least width digits.
Digits(n, base, width) ==
  LET text[m \in 0 .. n] == IF m < base THEN <<m>> ELSE Append(text[m \div base], m % base)
      pad == IF Len(text[n]) < width THEN width - Len(text[n]) ELSE 0
  IN [i \in 1 .. pad |-> 0] \o text[n]

NumberOf(digits, base) ==
  LET upTo[k \in 0 .. Len(digits)] == IF k = 0 THEN 0 ELSE upTo[k - 1] * base + digits[k]
  IN upTo[Len(digits)]

\* F, FF, FFF and so on.
Largest(width)  == NumberOf([i \in 1 .. width |-> 15], 16)
MaxSerialNumber == Largest(SerialWidth)

Letters   == (65 .. 90) \cup (97 .. 122)
Numerals  == 48 .. 57
HexChar(d)  == IF d < 10 THEN 48 + d ELSE 55 + d
HexDigit(c) == IF c \in Numerals THEN c - 48 ELSE c - 55
HexChars    == Numerals \cup (65 .. 70)
Upper(text) == [i \in DOMAIN text |-> IF text[i] \in 97 .. 122 THEN text[i] - 32 ELSE text[i]]

-----------------------------------------------------------------------------
(* Verhoeff. *)

\* The dihedral group of the pentagon: its product and its inverses.
D == << <<0, 1, 2, 3, 4, 5, 6, 7, 8, 9>>, <<1, 2, 3, 4, 0, 6, 7, 8, 9, 5>>,
        <<2, 3, 4, 0, 1, 7, 8, 9, 5, 6>>, <<3, 4, 0, 1, 2, 8, 9, 5, 6, 7>>,
        <<4, 0, 1, 2, 3, 9, 5, 6, 7, 8>>, <<5, 9, 8, 7, 6, 0, 4, 3, 2, 1>>,
        <<6, 5, 9, 8, 7, 1, 0, 4, 3, 2>>, <<7, 6, 5, 9, 8, 2, 1, 0, 4, 3>>,
        <<8, 7, 6, 5, 9, 3, 2, 1, 0, 4>>, <<9, 8, 7, 6, 5, 4, 3, 2, 1, 0>> >>
Inv == <<0, 4, 3, 2, 1, 5, 6, 7, 8, 9>>

\* One permutation of the digits for each position modulo 8.
P == << <<0, 1, 2, 3, 4, 5, 6, 7, 8, 9>>, <<1, 5, 7, 6, 2, 8, 3, 0, 9, 4>>,
        <<5, 8, 0, 3, 7, 9, 6, 1, 4, 2>>, <<8, 9, 1, 6, 0, 4, 3, 5, 2, 7>>,
        <<9, 4, 5, 3, 1, 2, 6, 8, 7, 0>>, <<4, 2, 8, 6, 5, 7, 3, 9, 0, 1>>,
        <<2, 7, 9, 3, 8, 0, 6, 4, 1, 5>>, <<7, 0, 4, 6, 9, 1, 3, 2, 5, 8>> >>

\* The product over the digits, the last one first, its position counted from `from`.
Product(digits, from) ==
  LET n == Len(digits)
      last[k \in 0 .. n] ==
        IF k = 0 THEN 0 ELSE D[last[k - 1] + 1][P[((k - 1 + from) % 8) + 1][digits[n - k + 1] + 1] + 1]
  IN last[n]

\* A faulty version for a mutant: the positions start where the check digit goes.
CheckDigitMisplaced(digits) == Inv[Product(digits, 0) + 1]

CheckDigit(digits) == Inv[Product(digits, 1) + 1]

Validate(digits) == Product(digits, 0) = 0

-----------------------------------------------------------------------------
(* The tax id. *)

\* Digits stand for themselves, a letter for its code point.
Decimalise(memory) ==
  LET upTo[k \in 0 .. Len(memory)] ==
        IF k = 0 THEN <<>>
        ELSE upTo[k - 1] \o (IF memory[k] \in Numerals THEN <<memory[k] - 48>> ELSE Digits(memory[k], 10, 1))
  IN upTo[Len(memory)]

ControlText(memory, day, serial) == Decimalise(memory) \o Digits(day, 10, 6) \o Digits(serial, 10, 12)

Hex(n, width) == [i \in DOMAIN Digits(n, 16, width) |-> HexChar(Digits(n, 16, width)[i])]

Identified(memory, serial, day) ==
  /\ Len(memory) = MemoryWidth /\ \A i \in DOMAIN memory : memory[i] \in Numerals \cup Letters
  /\ serial \in 0 .. MaxSerialNumber
  /\ day \in 0 .. Largest(DayWidth)

\* generate_tax_id: the letters are raised before the control text is taken.
GenerateTaxId(memory, serial, day) ==
  IF ~ Identified(memory, serial, day) THEN "InvalidTaxIdError"
  ELSE Upper(memory) \o Hex(day, DayWidth) \o Hex(serial, SerialWidth)
       \o <<48 + CheckDigit(ControlText(Upper(memory), day, serial))>>

\* serial_of: the memory and the serial of a tax id as typed, or an error.
SerialOf(typed) ==
  LET taxId  == Upper(typed)
      memory == SubSeq(taxId, 1, MemoryWidth)
      day    == SubSeq(taxId, MemoryWidth + 1, MemoryWidth + DayWidth)
      serial == SubSeq(taxId, MemoryWidth + DayWidth + 1, Len(taxId) - 1)
      Read(text) == NumberOf([i \in DOMAIN text |-> HexDigit(text[i])], 16)
      Bad    == [memory |-> <<>>, serial |-> -1]
  IN IF Len(taxId) # MemoryWidth + DayWidth + SerialWidth + 1 THEN Bad
     ELSE IF \E i \in MemoryWidth + 1 .. Len(taxId) - 1 : taxId[i] \notin HexChars THEN Bad
     ELSE IF taxId[Len(taxId)] # 48 + CheckDigit(ControlText(memory, Read(day), Read(serial))) THEN Bad
     ELSE [memory |-> memory, serial |-> Read(serial)]

-----------------------------------------------------------------------------
(* A number at a time, to look at its check digit. *)

VARIABLE number   \* the digits a check digit is asked for

TaxIdInit == number = <<>>

\* Two digits in any of the places the eight permutations repeat over.
TaxIdNext ==
  \E two \in [1 .. 2 -> 0 .. 9], zeros \in 0 .. 7 :
    /\ number = <<>>
    /\ number' = <<1>> \o two \o [i \in 1 .. zeros |-> 0]

\* One wrong digit, or two neighbours swapped, never goes unnoticed, the check
\* digit included; an undisturbed number always passes.
CheckDigitCatchesErrors ==
  number # <<>> =>
    LET whole == number \o <<CheckDigit(number)>>
    IN /\ Validate(whole)
       /\ \A i \in DOMAIN whole, d \in 0 .. 9 : d # whole[i] => ~ Validate([whole EXCEPT ![i] = d])
       /\ \A i \in 1 .. Len(whole) - 1 :
            whole[i] # whole[i + 1] => ~ Validate([whole EXCEPT ![i] = whole[i + 1], ![i + 1] = whole[i]])

=============================================================================
