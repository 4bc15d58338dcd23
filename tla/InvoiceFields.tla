---------------------------- MODULE InvoiceFields ----------------------------
(***************************************************************************)
(* Which fields an invoice carries: the obligation matrix (rules/spec.py), *)
(* the engine that holds an invoice against it (rules/engine.py) and what  *)
(* then goes on the wire (models/invoice.py).                              *)
(*                                                                         *)
(* Abstraction.  A text field is unset, blank or given; a number the rules *)
(* look at keeps its value.  The matrix is a constant, cut to the fields   *)
(* that differ in how they are obliged.  Money is InvoiceMoney's subject.  *)
(***************************************************************************)
EXTENDS InvoiceMoney

CONSTANTS
  Blank,       \* text that is empty or only spaces
  Matrix,      \* patterns.yaml: per pattern the rules and exclusions of each section
  Allowed,     \* patterns.yaml: the values of each enumerated field
  KnownUnit,   \* units.py
  Invoice      \* invoices an operator may describe: [header, body, sg]

\* What a unit of measure may be once the model has folded Persian digits.
UnitKinds == {KnownUnit, "unknown", "letters", "nine digits"}

\* What patterns.yaml says of every pattern, and the types of the wire model: a
\* pattern does not exclude a field it has a rule for; a correction names its
\* original, and a split settlement its cash part, for every type of invoice
\* that has a settlement; the lines oblige every type alike.
ASSUME MatrixAssumption ==
  /\ \A number \in DOMAIN Matrix :
       LET raw == Matrix[number]
       IN /\ \A section \in {"header", "body", "sg"} : raw.excluded[section] \cap DOMAIN raw[section] = {}
          /\ {"irtaxid", "setm", "cap"} \subseteq DOMAIN raw.header
          /\ raw.header.irtaxid.obligation = "conditional" /\ raw.header.irtaxid.when = "ins in (2, 3, 4)"
          /\ DOMAIN raw.header.irtaxid.byType = {}
          /\ raw.header.cap.obligation = "conditional" /\ raw.header.cap.when = "setm == 3"
          /\ \A inty \in DOMAIN raw.header.cap.byType :
               \/ raw.header.cap.byType[inty] = "conditional"
               \/ inty \in DOMAIN raw.header.setm.byType /\ raw.header.setm.byType[inty] = "not_applicable"
          /\ \A f \in DOMAIN raw.body : raw.body[f].obligation = "required" => DOMAIN raw.body[f].byType = {}
  /\ \A invoice \in Invoice :
       /\ "setm" \in DOMAIN invoice.header /\ invoice.header.cap # Blank
       /\ \A i \in DOMAIN invoice.body : invoice.body[i].mu \in {Unset, Blank} \cup UnitKinds

-----------------------------------------------------------------------------
(* spec.py *)

Rule(obligation, when, byType) == [obligation |-> obligation, when |-> when, byType |-> byType]

Conditions == {"setm == 3", "insr == 1", "ins in (2, 3, 4)"}
Holds(when, header) ==
  CASE when = "setm == 3"        -> header.setm = 3
    [] when = "insr == 1"        -> header.insr = 1
    [] when = "ins in (2, 3, 4)" -> header.ins \in {2, 3, 4}

\* _field_rules: a conditional rule names a condition there is, or none on purpose.
FieldRule(raw) ==
  /\ raw.obligation \in {"required", "optional", "conditional", "not_applicable"}
  /\ raw.obligation = "conditional" => raw.when \in Conditions \cup {"unspecified"}

\* load_rules: an excluded field is a rule of its own, over any written for it.
LoadRules(raw) ==
  [number \in DOMAIN raw |-> [section \in {"header", "body", "sg"} |->
     LET rules == raw[number][section]
         excluded == raw[number].excluded[section]
     IN [f \in DOMAIN rules \cup excluded |->
           IF f \in excluded THEN Rule("not_applicable", "", <<>>) ELSE rules[f]]]]

\* A pattern that cannot be loaded stops every request with ConfigurationError.
Loadable(raw) ==
  \A number \in DOMAIN raw, section \in {"header", "body", "sg"} :
    \A f \in DOMAIN raw[number][section] : FieldRule(raw[number][section][f])

\* A faulty version for a mutant: a type of invoice changes nothing.
ForTypeOfAny(rule, inty) == rule.obligation

ForType(rule, inty) == IF inty \in DOMAIN rule.byType THEN rule.byType[inty] ELSE rule.obligation

Applies(rule, header) ==
  rule.obligation = "conditional" => rule.when # "unspecified" /\ Holds(rule.when, header)

-----------------------------------------------------------------------------
(* engine.py *)

Present(section) == {f \in DOMAIN section : section[f] # Unset}

Violation(field, rule, severity) == [field |-> field, rule |-> rule, severity |-> severity]

HeaderObligations(invoice, spec) ==
  LET header == invoice.header
      Duty(f) == ForType(spec.header[f], header.inty)
      Due(f)  == Duty(f) = "required" \/ (Duty(f) = "conditional" /\ Applies(spec.header[f], header))
  IN {Violation(f, "not_applicable", "error") :
        f \in {f \in DOMAIN spec.header : Duty(f) = "not_applicable" /\ f \in Present(header)}}
     \cup {Violation(f, Duty(f), "error") : f \in {f \in DOMAIN spec.header : Due(f) /\ f \notin Present(header)}}

\* Of the lines and the shipped goods only what is required is looked at.
RowObligations(rows, rules, inty) ==
  {Violation(f, "required", "error") :
     f \in {f \in DOMAIN rules : ForType(rules[f], inty) = "required" /\ \E i \in DOMAIN rows : f \notin Present(rows[i])}}

CheckObligations(invoice, spec) ==
  HeaderObligations(invoice, spec)
  \cup (IF invoice.body = <<>> THEN {Violation("body", "not_empty", "error")} ELSE {})
  \cup (IF invoice.header.sg = Unset THEN {}
        ELSE RowObligations(invoice.header.sg, spec.sg, invoice.header.inty))
  \cup RowObligations(invoice.body, spec.body, invoice.header.inty)

CheckEnums(invoice) ==
  {Violation(f, "out_of_range", "error") :
     f \in {f \in DOMAIN Allowed : invoice.header[f] # Unset /\ invoice.header[f] \notin Allowed[f]}}

CheckLengths(invoice) ==
  LET items == {invoice.body[i] : i \in DOMAIN invoice.body}
  IN {Violation("sstt", "length", "error") : x \in {x \in items : x.sstt = "too long"}}
     \cup {Violation("mu", "format", "error") : x \in {x \in items : x.mu \in {"letters", "nine digits"}}}
     \cup {Violation("mu", "unverified", "warning") : x \in {x \in items : x.mu = "unknown"}}

PatternOf(invoice) == IF invoice.header.inp \in {Unset, 0} THEN 1 ELSE invoice.header.inp

\* validate, but for the amounts: a pattern that is not encoded is only warned of.
ValidateInvoice(invoice) ==
  LET rules == LoadRules(Matrix)
  IN (IF PatternOf(invoice) \notin DOMAIN rules THEN {Violation("inp", "not_encoded", "warning")}
      ELSE CheckObligations(invoice, rules[PatternOf(invoice)]))
     \cup CheckEnums(invoice) \cup CheckLengths(invoice)

\* Only errors refuse: InvoiceValidationError, the answer of verify, DRAFT or INVALID.
Accepted(invoice) == \A v \in ValidateInvoice(invoice) : v.severity # "error"

-----------------------------------------------------------------------------
(* to_wire_dict: what is unset or blank does not travel. *)

WithoutBlanks(section) == {f \in Present(section) : section[f] # Blank}

OnWire(invoice) ==
  [header |-> WithoutBlanks(invoice.header), body |-> [i \in DOMAIN invoice.body |-> WithoutBlanks(invoice.body[i])]]

-----------------------------------------------------------------------------
(* An invoice at a time. *)

VARIABLE described   \* the invoice the operator has typed

NoInvoice == [header |-> <<>>, body |-> <<>>]

FieldsInit == described = NoInvoice

Describe == described = NoInvoice /\ Loadable(Matrix) /\ described' \in Invoice

Blanks(section) == {f \in DOMAIN section : section[f] = Blank}

\* What the engine accepts, the organization can accept as far as the table of
\* obligations says: every field that is due travels, unless the operator left
\* it blank; no header field travels that is not part of the pattern for this
\* type; a correction names what it corrects, a split settlement its cash part;
\* no line travels with a blank field or with a unit that is no code.
AcceptedIsComplete ==
  described # NoInvoice /\ Accepted(described) /\ PatternOf(described) \in DOMAIN Matrix =>
    LET raw    == Matrix[PatternOf(described)]
        header == described.header
        wire   == OnWire(described)
        TypeSays(f, duty) == header.inty # Unset /\ header.inty \in DOMAIN raw.header[f].byType
                             /\ raw.header[f].byType[header.inty] = duty
        TypeIsSilent(f) == header.inty \notin DOMAIN raw.header[f].byType
    IN /\ described.body # <<>>
       /\ \A f \in DOMAIN raw.header :
            TypeSays(f, "required") \/ (TypeIsSilent(f) /\ raw.header[f].obligation = "required")
              => f \in wire.header \cup Blanks(header)
       /\ wire.header \cap raw.excluded.header = {}
       /\ \A f \in wire.header \cap DOMAIN raw.header : ~ TypeSays(f, "not_applicable")
       /\ header.ins \in {2, 3, 4} => "irtaxid" \in wire.header \cup Blanks(header)
       /\ header.setm = 3 => "cap" \in wire.header
       /\ \A i \in DOMAIN described.body :
            /\ \A f \in DOMAIN raw.body : raw.body[f].obligation = "required"
                 => f \in wire.body[i] \cup Blanks(described.body[i])
            /\ wire.body[i] \cap Blanks(described.body[i]) = {}
            /\ "mu" \in wire.body[i] => described.body[i].mu \in {KnownUnit, "unknown"}

=============================================================================
