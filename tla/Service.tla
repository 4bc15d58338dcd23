------------------------------- MODULE Service -------------------------------
(***************************************************************************)
(* The parts of the service beside the invoice records and their filing:   *)
(* profiles, buyers and goods, the catalogue, the signing keys, the serial *)
(* tool, the tax id and the rules.  They share no state, and no operation  *)
(* of one reads or changes another (deleting a profile leaves its          *)
(* records), so every behaviour of the whole is a shuffle of a behaviour   *)
(* of each: it is enough to let one of them move.                          *)
(***************************************************************************)
EXTENDS ProfileStore, ReferenceData, Catalogue, KeyRing, SerialTool, InvoiceFields

VARIABLE moving   \* the part that moves

Parts == {"profiles", "records", "catalogue", "keys", "tool", "numbers", "money", "fields"}

Init ==
  /\ ProfileInit /\ RecordInit /\ CatalogueInit
  /\ KeyInit /\ ToolInit /\ TaxIdInit /\ MoneyInit /\ FieldsInit
  /\ moving \in Parts

\* What each part leaves alone when it moves.
Rest(part) ==
  /\ part # "profiles"  => UNCHANGED profileVars
  /\ part # "records"   => UNCHANGED recordVars
  /\ part # "catalogue" => UNCHANGED catalogueVars
  /\ part # "keys"      => UNCHANGED keyVars
  /\ part # "tool"      => UNCHANGED toolVars
  /\ part # "numbers"   => UNCHANGED number
  /\ part # "money"     => UNCHANGED moneyVars
  /\ part # "fields"    => UNCHANGED described

Next ==
  /\ UNCHANGED moving
  /\ \/ moving = "profiles"  /\ ProfileNext
     \/ moving = "records"   /\ RecordNext
     \/ moving = "catalogue" /\ CatalogueNext
     \/ moving = "keys"      /\ Inspect
     \/ moving = "tool"      /\ ToolNext
     \/ moving = "numbers"   /\ TaxIdNext
     \/ moving = "money"     /\ MoneyNext
     \/ moving = "fields"    /\ Describe
  /\ Rest(moving)

vars == <<profileVars, recordVars, catalogueVars, keyVars, toolVars, number, moneyVars, described, moving>>

Spec == Init /\ [][Next]_vars

\* Type invariant of the three stores; the UNIQUE columns are part of it.
TypeOK == ProfileTypeOK /\ RecordTypeOK /\ CatalogueTypeOK

=============================================================================
