---------------------------- MODULE InvoiceMoney ----------------------------
(***************************************************************************)
(* The money of an invoice (rules/arithmetic.py): recompute fills in what  *)
(* follows from the operator's entries, check_arithmetic judges what a     *)
(* form holds.  A form may be corrected and calculated again.              *)
(*                                                                         *)
(* Abstraction.  Amounts are integers, Rial of them to a rial, and rates   *)
(* are in tenths of a percent; the bounded entries make every product      *)
(* exact, so only the rounding of the code is left.  A violation is the    *)
(* rule it breaks and its line, 0 for the header.                          *)
(***************************************************************************)
EXTENDS Integers, Sequences

CONSTANTS
  Unset,     \* a field the invoice does not have
  Pattern,   \* the patterns (inp) tried
  Entries,   \* lines an operator may type
  Terms,     \* settlements: [setm, cap, insp]
  MaxLines   \* bound: lines of a form

\* A field the invoice has is a number; what an operator types is left in its field.
Amount      == Int \cup {Unset}
EntryFields == {"am", "fee", "cfee", "exr", "dis", "vra", "tcpbs", "sovat", "odam", "olam", "ssrv"}
TermFields  == {"setm", "cap", "insp"}

ASSUME MoneyAssumption ==
  /\ Unset \notin Int
  /\ Entries \subseteq [EntryFields -> Amount] /\ Terms \subseteq [TermFields -> Amount]
  /\ MaxLines \in Nat

Rial          == 10000
TOLERANCE     == 1 * Rial
ZeroVatPatterns == {7, 11, 14}

VARIABLES form, calculated
moneyVars == <<form, calculated>>

-----------------------------------------------------------------------------
(* Formulas. *)

N(value) == IF value = Unset THEN 0 ELSE value
Off(actual, expected) == N(actual) - expected \notin -TOLERANCE .. TOLERANCE

Times(amount, price) == (N(amount) * N(price)) \div Rial
Percent(amount, rate) == (N(amount) * N(rate)) \div 1000

\* To whole rials, halves to the even one.
Round(amount) ==
  LET rials == amount \div Rial
      rest  == amount % Rial
  IN Rial * (IF 2 * rest > Rial \/ (2 * rest = Rial /\ rials % 2 = 1) THEN rials + 1 ELSE rials)

PreDiscount(item, pattern) ==
  CASE pattern = 2 -> Times(item.cfee, item.exr)
    [] pattern = 6 -> N(item.fee)
    [] OTHER       -> Times(item.am, item.fee)

\* Gold adds the wages and the seller's profit before the discount.
AfterDiscount(item, pattern) ==
  PreDiscount(item, pattern) + (IF pattern = 3 THEN N(item.tcpbs) ELSE 0) - N(item.dis)

Vat(item, pattern) ==
  CASE pattern = 3 -> Percent(item.tcpbs, 100) + Percent(PreDiscount(item, pattern), item.vra)
    [] pattern = 2 -> Percent(item.sovat, item.vra)
    [] OTHER       -> Percent(item.adis, item.vra)

LineTotal(item, pattern) ==
  (IF pattern = 7 THEN N(item.ssrv) ELSE N(item.adis)) + N(item.vam) + N(item.odam) + N(item.olam)

\* The sum of a list of amounts, one after the other.
AddUp(amounts) ==
  LET upTo[n \in 0 .. Len(amounts)] == IF n = 0 THEN 0 ELSE upTo[n - 1] + amounts[n]
  IN upTo[Len(amounts)]

Sum(body, field) == AddUp([i \in DOMAIN body |-> N(body[i][field])])

\* The header's totals and the columns they add up.
Columns == [tprdis |-> <<"prdis">>, tdis |-> <<"dis">>, tadis |-> <<"adis">>, tvam |-> <<"vam">>,
            tbill |-> <<"tsstam">>, todam |-> <<"odam", "olam">>]
Total(body, name) == AddUp([c \in DOMAIN Columns[name] |-> Sum(body, Columns[name][c])])

-----------------------------------------------------------------------------
(* check_arithmetic: every rule that is broken. *)

\* The rules a record of tests finds broken, at a line.
Broken(tests, line) == {[rule |-> r, line |-> line] : r \in {r \in DOMAIN tests : tests[r]}}

CheckLine(item, line, pattern) ==
  Broken([prdis           |-> Off(item.prdis, PreDiscount(item, pattern)),
          prdis_positive  |-> N(item.prdis) <= 0,
          dis_negative    |-> N(item.dis) < 0,
          dis_at_most     |-> N(item.dis) >= 0 /\ N(item.dis) > N(item.prdis) + TOLERANCE,
          adis            |-> Off(item.adis, AfterDiscount(item, pattern)),
          adis_negative   |-> N(item.adis) < 0,
          vra_negative    |-> N(item.vra) < 0,
          vra_zero        |-> pattern \in ZeroVatPatterns /\ N(item.vra) # 0,
          vam             |-> Off(item.vam, Vat(item, pattern)),
          tsstam          |-> Off(item.tsstam, LineTotal(item, pattern))], line)

CheckTotals(header, body) ==
  Broken([name \in DOMAIN Columns |-> Off(header[name], Total(body, name))], 0)
  \cup Broken([tprdis_positive |-> N(header.tprdis) <= 0], 0)

\* Cash and credit together: both given, positive, less than the bill, and with
\* the taxes they make it up.
CheckSettlement(header) ==
  LET cap   == N(header.cap)
      insp  == N(header.insp)
      tbill == N(header.tbill)
      both  == Unset \notin {header.cap, header.insp}
  IN IF header.setm \notin {Unset, 1, 2, 3} THEN Broken([method |-> TRUE], 0)
     ELSE IF header.setm # 3 THEN {}
     ELSE Broken([cap_required   |-> header.cap = Unset,
                  insp_required  |-> header.insp = Unset,
                  cap_positive   |-> header.cap # Unset /\ cap <= 0,
                  insp_positive  |-> header.insp # Unset /\ insp <= 0,
                  split_balances |-> both /\ Off(cap, tbill - N(header.todam) - N(header.tvam) - insp),
                  cap_below      |-> both /\ cap >= tbill,
                  insp_below     |-> both /\ insp >= tbill], 0)

CheckArithmetic(f) ==
  (UNION {CheckLine(f.body[i], i, f.pattern) : i \in DOMAIN f.body})
  \cup CheckTotals(f.header, f.body) \cup CheckSettlement(f.header)

-----------------------------------------------------------------------------
(* recompute. *)

\* A faulty version for a mutant: the tax is taken of the amount as it was.
RecomputeLineOutOfOrder(item, pattern) ==
  LET prdis == [item EXCEPT !.prdis = Round(PreDiscount(item, pattern))]
      vam   == [prdis EXCEPT !.vam = Round(Vat(prdis, pattern))]
      adis  == [vam EXCEPT !.adis = Round(AfterDiscount(vam, pattern))]
  IN [adis EXCEPT !.tsstam = Round(LineTotal(adis, pattern))]

\* Each amount is rounded before the next is made of it.
RecomputeLine(item, pattern) ==
  LET prdis == [item EXCEPT !.prdis = Round(PreDiscount(item, pattern))]
      adis  == [prdis EXCEPT !.adis = Round(AfterDiscount(prdis, pattern))]
      vam   == [adis EXCEPT !.vam = Round(Vat(adis, pattern))]
  IN [vam EXCEPT !.tsstam = Round(LineTotal(vam, pattern))]

Recompute(f) ==
  LET body == [i \in DOMAIN f.body |-> RecomputeLine(f.body[i], f.pattern)]
  IN [f EXCEPT !.body = body,
               !.header = [name \in DOMAIN @ |-> IF name \in DOMAIN Columns THEN Round(Total(body, name)) ELSE @[name]]]

-----------------------------------------------------------------------------
(* The entry form. *)

Derived   == {"prdis", "adis", "vam", "tsstam"}
LineOf(entry) == [field \in DOMAIN entry \cup Derived |-> IF field \in Derived THEN Unset ELSE entry[field]]
HeaderOf(terms) == [field \in DOMAIN terms \cup DOMAIN Columns |-> IF field \in DOMAIN Columns THEN Unset ELSE terms[field]]
NoForm    == [pattern |-> 0, header |-> <<>>, body |-> <<>>]

MoneyInit == form = NoForm /\ calculated = FALSE

Enter ==
  /\ form = NoForm
  /\ \E lines \in UNION {[1 .. n -> Entries] : n \in 1 .. MaxLines}, pattern \in Pattern, terms \in Terms :
       form' = [pattern |-> pattern, header |-> HeaderOf(terms), body |-> [i \in DOMAIN lines |-> LineOf(lines[i])]]
  /\ UNCHANGED calculated

\* recompute_invoice
Calculate ==
  /\ form # NoForm /\ ~ calculated
  /\ form' = Recompute(form)
  /\ calculated' = TRUE

\* The last line is typed over; what was calculated for it is still there.
Correct ==
  /\ calculated
  /\ \E entry \in Entries :
       form' = [form EXCEPT !.body[Len(form.body)] =
                  [field \in DOMAIN @ |-> IF field \in Derived THEN @[field] ELSE entry[field]]]
  /\ calculated' = FALSE

MoneyNext == Enter \/ Calculate \/ Correct

\* What only the operator can have got wrong.
EntryRules == {"prdis_positive", "dis_negative", "dis_at_most", "adis_negative", "vra_negative", "vra_zero",
               "tprdis_positive", "method", "cap_required", "insp_required", "cap_positive", "insp_positive",
               "split_balances", "cap_below", "insp_below"}

\* An invoice fresh from the calculate button, also after corrections, breaks no
\* rule about an amount the button fills in, whatever the pattern: what it rounds
\* stays within what check_arithmetic tolerates, for each line and for the sums
\* of rounded lines.
CalculatedIsAccepted ==
  calculated => \A v \in CheckArithmetic(form) : v.rule \in EntryRules

=============================================================================
