------------------------------ MODULE MCService ------------------------------
(***************************************************************************)
(* Model values for Service.                                               *)
(***************************************************************************)
EXTENDS Service, TLC

Row(id, key, def) == [id |-> id, key |-> key, def |-> def]

\* Two profiles of version 1 with a buyer in common, and a default item each.
TwoProfiles == [t \in Table |->
  IF t = "buyers" THEN {Row(1, "k1", FALSE), Row(2, "k1", FALSE)}
                  ELSE {Row(1, "k1", TRUE), Row(2, "k2", TRUE), Row(3, "k1", FALSE)}]

Good(code, word, rate, expired) == [code |-> code, word |-> word, rate |-> rate, expired |-> expired]

\* A code whose rate changed; the same code again with a code of another part;
\* rows without a description, one of which would be the first of its key.
Changed == <<Good("c1", "w1", 9, TRUE), Good("c1", "w1", 10, FALSE)>>
Another == <<Good("c2", "", 10, FALSE), Good("c2", "w1", 10, FALSE), Good("c1", "w2", 10, FALSE)>>
Empty   == <<Good("", "w1", 10, FALSE)>>
Exports == {Changed, Another, Empty, Alien}

\* A11216 and A11217.
Memories == {<<65, 49, 49, 50, 49, c>> : c \in {54, 55}}

\* Half pieces and rates give fractions of a rial; the last two lines are wrong.
Line(am, fee, dis, vra, other) ==
  [am |-> am, fee |-> fee, cfee |-> fee, exr |-> 3 * Rial, dis |-> dis, vra |-> vra, tcpbs |-> other,
   sovat |-> other, odam |-> other, olam |-> 0, ssrv |-> fee]
Typed == {Line(am, fee, dis, 95, other) :
            am \in {5000, 15000}, fee \in {30000, 70000}, dis \in {0, 20000}, other \in {0, 50000}}
         \cup {Line(15000, 10000, 90000, 0, Unset), Line(10000, 0, -10000, -10, 0)}
Settled == {[setm |-> 1, cap |-> Unset, insp |-> Unset], [setm |-> 3, cap |-> 40000, insp |-> 10000],
            [setm |-> 3, cap |-> Unset, insp |-> 0], [setm |-> 4, cap |-> Unset, insp |-> Unset]}

\* A sale, and the waybill that lists shipped goods.
Whole == Rule("required", "", <<>>)
Free  == Rule("optional", "", <<>>)
Sale ==
  [header |-> [taxid |-> Whole, tins |-> Whole, inty |-> Whole,
               scln    |-> Rule("optional", "", <<"optional", "not_applicable">>),
               irtaxid |-> Rule("conditional", "ins in (2, 3, 4)", <<>>),
               setm    |-> Rule("required", "", <<"required", "not_applicable">>),
               cap     |-> Rule("conditional", "setm == 3", <<"conditional", "not_applicable">>),
               tinb    |-> Rule("conditional", "unspecified", <<"conditional", "optional">>)],
   body |-> [am |-> Whole, sstt |-> Free], sg |-> <<>>,
   excluded |-> [header |-> {"sg", "cdcn"}, body |-> {"nw"}, sg |-> {"sgid"}]]
Waybill ==
  [Sale EXCEPT !.header = [f \in DOMAIN @ \cup {"sg"} |-> IF f = "sg" THEN Whole ELSE @[f]],
               !.sg = [sgid |-> Whole], !.excluded = [header |-> {"cdcn"}, body |-> {}, sg |-> {}]]
Table1 == (1 :> Sale) @@ (8 :> Waybill)
Values == [inty |-> 1 .. 3, ins |-> 1 .. 4, setm |-> 1 .. 3]

Goods   == {Unset, <<[sgid |-> Unset]>>, <<[sgid |-> "given"]>>}
Headers == [taxid : {Blank}, insr : {Unset}, inp : {Unset, 8, 12}, inty : {Unset, 1, 2, 4}, ins : {1, 2},
            setm : {Unset, 1, 3}, tins : {Unset, Blank}, scln : {Unset, "given"}, irtaxid : {Unset, "given"},
            cap : {Unset, 1}, tinb : {Unset}, cdcn : {Unset, Blank, "given"}, sg : Goods]
Items   == {[am |-> am, sstt |-> Blank, nw |-> Unset, mu |-> mu] : am \in {Unset, 1}, mu \in {Unset, Blank} \cup UnitKinds}
           \cup {[am |-> 1, sstt |-> "too long", nw |-> Unset, mu |-> Unset]}
Invoices == [header : Headers, body : {<<>>} \cup {<<item>> : item \in Items}]

\* Proved in Service_proof; here TLC computes the tax ids of these memories.
ASSUME TaxIdsReadBack == ReadsBack

\* Requests are alike, and so are workers.
Mirror == Permutations(Request) \cup Permutations(Worker)

=============================================================================
