----------------------------- MODULE DoctorBot -----------------------------
(***************************************************************************)
(* The Selenium bot of src/helper_scripts/auto/auto_doc_specialities.py:   *)
(* it reads (name, specialties) rows from a CSV into a dict, logs in to    *)
(* Drupal, and for each name filters admin/content by title, opens the     *)
(* first "Edit" link, types each specialty into the field of its index     *)
(* (adding a row when the field is missing), and saves.  The Drupal side   *)
(* is the nodes' specialty lists and the order of the content listing,     *)
(* most recently updated first.                                            *)
(***************************************************************************)
EXTENDS Naturals, Sequences, FiniteSets

CONSTANTS
  Nodes,      \* titles of the doctor nodes on the site
  Terms,      \* specialty terms
  Rows,       \* the CSV rows, in file order: [name, specs]
  Matches,    \* Matches[n]: the nodes whose title contains n (the title filter)
  Suggest,    \* Suggest[t]: the terms the autocomplete lists for typed text t
  MaxRows,    \* bound on the specialty rows a node has before the run
  Faults      \* subset of {"page", "nolink", "nomatch"}

Names == {Rows[i].name : i \in DOMAIN Rows}

\* An autocomplete miss leaves the typed text in the field: no term.
Unresolved == "unresolved"

\* Rows is a sequence of records whose specs are non-empty sequences of
\* Terms; Matches[n] \subseteq Nodes and Suggest[t] \subseteq Terms;
\* Nodes is finite; Unresolved is not a term.

\* load_csv_data: the dict keeps each name at its first row's place and
\* takes the specialties of its last row.
FirstRow(n) == CHOOSE i \in DOMAIN Rows : Rows[i].name = n /\ \A j \in 1 .. i - 1 : Rows[j].name # n
Csv(n) == Rows[CHOOSE i \in DOMAIN Rows : Rows[i].name = n /\ \A j \in i + 1 .. Len(Rows) : Rows[j].name # n].specs

\* What the site may hold before the run: any short specialty list per
\* node, and any order of the content listing.
Lists == UNION {[1 .. k -> Terms] : k \in 0 .. MaxRows}
Orders == {s \in [1 .. Cardinality(Nodes) -> Nodes] : \A m \in Nodes : \E i \in DOMAIN s : s[i] = m}

VARIABLES
  pc,       \* "login", "list", "edit", "done" or "raised"
  todo,     \* the dict's names not yet processed
  cur,      \* the name being processed
  node,     \* the node whose edit form is open
  form,     \* the specialty rows of the open form
  idx,      \* enumerate index of the specialty loop
  spec,     \* spec[m]: node m's saved specialties
  listing,  \* admin/content, most recently updated first
  success   \* the names counted in success_count

vars == <<pc, todo, cur, node, form, idx, spec, listing, success>>

\* The first "Edit" link of the filtered listing: the earliest listed match.
FirstMatch(n) ==
  CHOOSE m \in Matches[n] :
    \E i \in DOMAIN listing : listing[i] = m /\ \A j \in 1 .. i - 1 : listing[j] \notin Matches[n]

\* The listing after node m is saved: m moves to the top, and the nodes
\* listed above it move down one place (the listing holds each node once).
Touch(m) ==
  LET k == CHOOSE i \in DOMAIN listing : listing[i] = m
  IN  [i \in DOMAIN listing |-> IF i = 1 THEN m ELSE IF i <= k THEN listing[i - 1] ELSE listing[i]]

Init ==
  /\ pc = "login"
  /\ todo = Names
  /\ cur = CHOOSE n \in Names : TRUE
  /\ node = CHOOSE m \in Nodes : TRUE
  /\ form = << >>
  /\ idx = 1
  /\ spec \in [Nodes -> Lists]
  /\ listing \in Orders
  /\ success = {}

\* setup_driver, login, load_csv_data and the content list; a login page
\* that does not show edit-name in 10 s raises out of run().
Login ==
  /\ pc = "login"
  /\ \/ pc' = "list"
     \/ "page" \in Faults /\ pc' = "raised"
  /\ UNCHANGED <<todo, cur, node, form, idx, spec, listing, success>>

\* The next name in dict order: the title filter is typed and applied
\* outside any try, so a missing search field ends the whole run; then the
\* first Edit link opens, or none appears in 10 s and the name is skipped.
Search ==
  /\ pc = "list"
  /\ todo # {}
  /\ LET n == CHOOSE x \in todo : \A y \in todo : FirstRow(x) <= FirstRow(y)
     IN /\ cur' = n
        /\ todo' = todo \ {n}
        /\ \/ "page" \in Faults /\ pc' = "raised" /\ UNCHANGED <<node, form>>
           \/ /\ Matches[n] = {} \/ "nolink" \in Faults
              /\ UNCHANGED <<pc, node, form>>
           \/ /\ Matches[n] # {}
              /\ node' = FirstMatch(n)
              /\ form' = spec[FirstMatch(n)]
              /\ pc' = "edit"
  /\ idx' = 1
  /\ UNCHANGED <<spec, listing, success>>

\* What a field holds after text x is typed and the first .ui-menu-item is
\* clicked: any term the autocomplete lists for x (its order is the
\* site's), or the typed text when no item shows within the wait.
Picked(x) ==
  Suggest[x] \cup (IF "nomatch" \in Faults \/ Suggest[x] = {} THEN {Unresolved} ELSE {})

\* One specialty: the field of this index, or a new row from "Add another
\* item"; the text is typed and the first autocomplete item clicked, or
\* none shows and the typed text stays.
FillField ==
  /\ pc = "edit"
  /\ idx <= Len(Csv(cur))
  /\ \E t \in Picked(Csv(cur)[idx]) :
       form' = IF idx <= Len(form) THEN [form EXCEPT ![idx] = t] ELSE Append(form, t)
  /\ idx' = idx + 1
  /\ UNCHANGED <<pc, todo, cur, node, spec, listing, success>>

\* edit-submit is clicked and the name counted as updated; Drupal keeps the
\* node as it was when a row names no term (the form does not validate).
Save ==
  /\ pc = "edit"
  /\ idx > Len(Csv(cur))
  /\ IF \E i \in DOMAIN form : form[i] = Unresolved
     THEN UNCHANGED <<spec, listing>>
     ELSE /\ spec' = [spec EXCEPT ![node] = form]
          /\ listing' = Touch(node)
  /\ success' = success \cup {cur}
  /\ pc' = "list"
  /\ UNCHANGED <<todo, cur, node, form, idx>>

\* The loop ends; the driver quits.
Finish ==
  /\ pc = "list"
  /\ todo = {}
  /\ pc' = "done"
  /\ UNCHANGED <<todo, cur, node, form, idx, spec, listing, success>>

Next == Login \/ Search \/ FillField \/ Save \/ Finish

\* Only safety is checked of the bot: no fairness.
Spec == Init /\ [][Next]_vars

-----------------------------------------------------------------------------

TypeOK ==
  /\ pc \in {"login", "list", "edit", "done", "raised"}
  /\ todo \subseteq Names /\ cur \in Names /\ node \in Nodes
  /\ form \in Seq(Terms \cup {Unresolved})
  /\ spec \in [Nodes -> Seq(Terms)]
  /\ success \subseteq Names

\* Every name the bot counts as updated has a node of that title whose
\* specialties now begin with the CSV's: what "Updated <name>" (line 142)
\* and success_count report.
SuccessMeansUpdated ==
  \A n \in success :
     n \in Nodes /\ Len(spec[n]) >= Len(Csv(n)) /\ SubSeq(spec[n], 1, Len(Csv(n))) = Csv(n)

\* After the run every updated doctor has exactly the CSV's specialties:
\* the bot writes the fields of indexes 0 .. len-1 (lines 106-123) and
\* leaves rows beyond them as they were.
SpecialtiesMatchCsv ==
  pc = "done" => \A n \in success : spec[n] = Csv(n)

\* One page that does not show the search field ends only that doctor's
\* update, as the except of lines 145-147 intends, not the whole batch.
BatchCompletes ==
  pc # "raised"

=============================================================================
