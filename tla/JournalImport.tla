--------------------------- MODULE JournalImport ---------------------------
(* The role journal-import: it copies the executor's emergency, pause and   *)
(* shadow records into the audit ledger, a page at a time after the highest *)
(* sequence it has imported, one transaction per entry. The executor keeps  *)
(* writing, and the role may die or lose a call between any two imports.    *)
EXTENDS Integers, Sequences, FiniteSets, FiniteSetsExt

CONSTANTS
  Orders,        \* intents of the executor (the correlation ids)
  BatchSize,     \* entries of one page
  MaxLines       \* bound: entries of the journal

ASSUME ImportAssumption ==
  BatchSize \in Nat \ {0} /\ MaxLines \in Nat /\ "none" \notin Orders

VARIABLES
  lines,         \* the executor's journal
  imported,      \* sequences with a row in ops.executor_journal_imports
  emergencies,   \* correlation ids of the imported emergency ATTEMPT_PREPARED rows
  importer,      \* the role: what is left of its page
  reviewGate     \* the sticky entry pause of an imported emergency close

importVars == <<lines, imported, emergencies, importer, reviewGate>>

\* ALWAYS, and ATTEMPT: the first line of an intent says whether it is an emergency.
LineKinds == {"ALWAYS", "CLOSE_COMMAND"}
Lines == [kind : LineKinds, order : {"none"}] \cup
         [kind : {"PREPARED_EMERGENCY", "PREPARED_NORMAL", "ATTEMPT"}, order : Orders]
Prepared(o) == \E i \in DOMAIN lines : lines[i].order = o

NoPage == [todo |-> {}, closes |-> FALSE, at |-> "idle"]
ImportInit ==
  /\ lines = <<>> /\ imported = {} /\ emergencies = {}
  /\ importer = NoPage /\ reviewGate = FALSE

\* ATTEMPT_PREPARED is the first line of an intent.
ExecutorWrites(l) ==
  /\ Len(lines) < MaxLines
  /\ l.order # "none" => (l.kind = "ATTEMPT") = Prepared(l.order)
  /\ lines' = Append(lines, l)
  /\ UNCHANGED <<imported, emergencies, importer, reviewGate>>

----------------------------------------------------------------------------
lastImported == IF imported = {} THEN 0 ELSE Max(imported)

\* Mutant: an attempt counts as an emergency's only when its first line is in the page.
SelectInPage(page, known) ==
  LET emergency == {lines[i].order : i \in {j \in page : lines[j].kind = "PREPARED_EMERGENCY"}}
  IN  {i \in page : lines[i].kind \in LineKinds \/ lines[i].order \in emergency}

\* selectImportable, on the page and the emergencies known from the ledger.
SelectImportable(page, known) ==
  LET emergency == known \cup {lines[i].order : i \in {j \in page : lines[j].kind = "PREPARED_EMERGENCY"}}
  IN  {i \in page : lines[i].kind \in LineKinds \/ lines[i].order \in emergency}

\* Mutant: the executor answers from the cursor on, not after it.
PullInclusive ==
  /\ importer.at = "idle"
  /\ LET page == {i \in DOMAIN lines : i >= lastImported /\ i < lastImported + BatchSize}
         todo == SelectImportable(page, emergencies)
     IN  todo # {} /\ importer' = [NoPage EXCEPT !.todo = todo, !.at = "import"]
  /\ UNCHANGED <<lines, imported, emergencies, reviewGate>>

Pull ==
  /\ importer.at = "idle"
  /\ LET page == {i \in DOMAIN lines : i > lastImported /\ i <= lastImported + BatchSize}
         todo == SelectImportable(page, emergencies)
     IN  todo # {} /\ importer' = [NoPage EXCEPT !.todo = todo, !.at = "import"]
  /\ UNCHANGED <<lines, imported, emergencies, reviewGate>>

\* importEntry, in the order of the page: the audit row and the import row, once per hash.
ImportEntry ==
  /\ importer.at = "import" /\ importer.todo # {}
  /\ LET i == Min(importer.todo)
     IN  /\ imported' = imported \cup {i}
         /\ emergencies' = IF lines[i].kind = "PREPARED_EMERGENCY" THEN emergencies \cup {lines[i].order} ELSE emergencies
         /\ importer' = [importer EXCEPT !.todo = @ \ {i}, !.closes = @ \/ lines[i].kind = "CLOSE_COMMAND"]
  /\ UNCHANGED <<lines, reviewGate>>

\* insertEntryPauseOnce, when the page held an emergency close.
SetReviewGate ==
  /\ importer.at = "import" /\ importer.todo = {}
  /\ reviewGate' = (reviewGate \/ importer.closes)
  /\ importer' = NoPage
  /\ UNCHANGED <<lines, imported, emergencies>>

ImportThrows ==
  /\ importer.at # "idle" /\ importer' = NoPage
  /\ UNCHANGED <<lines, imported, emergencies, reviewGate>>

ImportNext ==
  \/ \E l \in Lines : ExecutorWrites(l)
  \/ Pull \/ ImportEntry \/ SetReviewGate \/ ImportThrows

\* The role's loop never ends, and an import that keeps being tried succeeds.
ImportSpec ==
  /\ ImportInit /\ [][ImportNext]_importVars
  /\ WF_importVars(Pull) /\ SF_importVars(ImportEntry) /\ WF_importVars(SetReviewGate)

----------------------------------------------------------------------------
ImportTypeOK ==
  /\ Len(lines) <= MaxLines /\ imported \subseteq DOMAIN lines /\ emergencies \subseteq Orders
  /\ importer.todo \subseteq DOMAIN lines
  /\ importer.at \in {"idle", "import"} /\ reviewGate \in BOOLEAN

EmergencyOrder(o) == \E j \in DOMAIN lines : lines[j].kind = "PREPARED_EMERGENCY" /\ lines[j].order = o

WorthImporting(i) == lines[i].kind \in LineKinds \/ EmergencyOrder(lines[i].order)

(* Nothing worth the ledger is behind the cursor without being in it: not   *)
(* when the role dies inside a page, and not when the line that makes an    *)
(* intent an emergency is in an earlier page than its attempt lines.        *)
NoImportableSkipped ==
  \A i \in DOMAIN lines : (i <= lastImported /\ WorthImporting(i)) => i \in imported

\* The cursor moves with the imported entries only: behind a page of others
\* it stays for ever.
Stalled ==
  /\ Len(lines) >= lastImported + BatchSize
  /\ \A i \in lastImported + 1..lastImported + BatchSize : ~WorthImporting(i)

(* Once the executor writes no more, everything worth the ledger is in it,  *)
(* unless a whole page after the cursor holds nothing worth it.             *)
ImportsCatchUp == <>[](Stalled \/ \A i \in DOMAIN lines : WorthImporting(i) => i \in imported)
=============================================================================
