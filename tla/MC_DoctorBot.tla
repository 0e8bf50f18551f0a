----------------------------- MODULE MC_DoctorBot -----------------------------
(***************************************************************************)
(* Three doctor nodes, one title inside another; a CSV naming one doctor   *)
(* twice; the site may hold any one or two specialties per doctor; one    *)
(* term's name is part of another's.                                       *)
(***************************************************************************)
EXTENDS DoctorBot

MCNodes == {"Ana Pop", "Ana Popescu", "Ion Ene"}

\* "neuro" is contained in the name of a second term.
MCTerms == {"cardio", "neuro", "neuro pediatrica"}

\* The autocomplete lists the terms whose name contains the typed text.
MCSuggest ==
  [t \in MCTerms |-> IF t = "neuro" THEN {"neuro", "neuro pediatrica"} ELSE {t}]

\* An autocomplete that lists only the term typed.
MCSuggestExact == [t \in MCTerms |-> {t}]

Row(n, s) == [name |-> n, specs |-> s]

\* Two rows for Ion Ene (the dict keeps the last) and one for Ana Popescu.
MCRows == << Row("Ion Ene", << "cardio" >>), Row("Ana Popescu", << "neuro", "cardio" >>),
             Row("Ion Ene", << "neuro" >>) >>

\* The same, and a row for Ana Pop, whose title is part of Ana Popescu's.
MCRowsPrefix == MCRows \o << Row("Ana Pop", << "neuro" >>) >>

MCMatches ==
  [n \in {"Ana Pop", "Ana Popescu", "Ion Ene"} |->
     IF n = "Ana Pop" THEN {"Ana Pop", "Ana Popescu"} ELSE {n}]

=============================================================================
