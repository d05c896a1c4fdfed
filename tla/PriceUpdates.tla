---------------------------- MODULE PriceUpdates ----------------------------
(***************************************************************************)
(* The price notes and their editors.  A partner's entry for an item has a *)
(* price, notes, a unit and a version; administrators list the entries,    *)
(* and send an edit with the version their list showed.  An update locks   *)
(* the table of its direction, reads the entry under a row lock, compares  *)
(* version and units, and writes the entry together with its audit row.    *)
(*                                                                         *)
(* An editor who gets no answer is left with the list he had, like one who *)
(* does not refresh: a lost answer is no action of its own.                *)
(***************************************************************************)
EXTENDS Integers, Sequences

CONSTANTS
  Entries,   \* rows of the three tables, with:
  Home,      \*   [table, listing]: its direction, and its partner and item
  Original,  \*   its values when the audit began
  Entered,   \* [terms, unit]: what an editor may enter; terms are price and notes
  Trimmed,   \* strings.TrimSpace and BTRIM, on units
  Folded,    \* LOWER, on units
  Editors,
  MaxEdits   \* bound: updates of one entry

\* An entry of the catalogue: what can be edited of it.
Values ==
  LET entered == Entered \cup {Original[x] : x \in Entries}
  IN  [terms : {v.terms : v \in entered}, unit : DOMAIN Trimmed]
ASSUME ValuesAssumption == Entered \subseteq Values /\ \A x \in Entries : Original[x] \in Values
ASSUME UnitAssumption ==
         \A u \in DOMAIN Trimmed : Trimmed[u] \in DOMAIN Trimmed /\ Trimmed[Trimmed[u]] = Trimmed[u]
\* The seeds insert one entry of a partner and item in one unit.
ASSUME SeedAssumption ==
         \A x, y \in Entries :
           Home[x] = Home[y] /\ Folded[Trimmed[Original[x].unit]] = Folded[Trimmed[Original[y].unit]]
             => x = y

VARIABLES
  entries,    \* [values, version] of every row
  lists,      \* the entries as an editor last listed them
  edits,      \* the transactions
  priceAudit  \* business_price_audit, per entry, with what the editor's list had shown

priceVars == <<entries, lists, edits, priceAudit>>

NoEdit == [at |-> "none"]
Unread == [version |-> 0]
Editing(e) == edits[e].at # "none"
Fresh == [x \in Entries |-> [values |-> Original[x], version |-> 1]]

\* EXISTS: another entry of the listing has the unit, in some spelling.
Taken(x, unit) ==
  \E y \in Entries \ {x} :
    /\ Home[y] = Home[x]
    /\ Folded[Trimmed[entries[y].values.unit]] = Folded[unit]

PriceInit ==
  /\ entries = Fresh
  /\ lists = [e \in Editors |-> Fresh]
  /\ edits = [e \in Editors |-> NoEdit]
  /\ priceAudit = [x \in Entries |-> <<>>]

ListPrices(e) ==
  /\ ~Editing(e)
  /\ lists' = [lists EXCEPT ![e] = entries]
  /\ UNCHANGED <<entries, edits, priceAudit>>

-----------------------------------------------------------------------------
Sends(e, x, values) ==
  /\ ~Editing(e)
  /\ edits' = [edits EXCEPT ![e] = [at |-> "entry", entry |-> x, form |-> lists[e][x],
                                    values |-> [values EXCEPT !.unit = Trimmed[values.unit]],
                                    before |-> Unread]]
  /\ UNCHANGED <<entries, lists, priceAudit>>

\* Fault: only the entry is locked.
SendsAtOnce(e, x, values) == Sends(e, x, values)

\* LOCK TABLE .. IN SHARE ROW EXCLUSIVE MODE waits for every other update of it.
SendUpdate(e, x, values) ==
  /\ \A f \in Editors : Editing(f) => Home[edits[f].entry].table # Home[x].table
  /\ Sends(e, x, values)

\* SELECT .. FOR UPDATE, and the checks on what it read.
Refused(edit) ==
  \/ entries[edit.entry].version # edit.form.version
  \/ /\ Home[edit.entry].table = "internal"
     /\ edit.values.unit # entries[edit.entry].values.unit
LockEntry(e) ==
  /\ edits[e].at = "entry"
  /\ \A f \in Editors \ {e} :
       Editing(f) /\ edits[f].at # "entry" => edits[f].entry # edits[e].entry
  /\ edits' = [edits EXCEPT ![e] =
       IF Refused(edits[e]) THEN NoEdit
       ELSE [@ EXCEPT !.at = "unit", !.before = entries[edits[e].entry]]]
  /\ UNCHANGED <<entries, lists, priceAudit>>

\* A duplicate is refused, and an edit that changes nothing leaves no trace.
CheckUnit(e) ==
  LET edit == edits[e]
  IN  /\ edit.at = "unit"
      /\ edits' = [edits EXCEPT ![e] =
           IF Taken(edit.entry, edit.values.unit) \/ edit.before.values = edit.values
           THEN NoEdit ELSE [@ EXCEPT !.at = "commit"]]
      /\ UNCHANGED <<entries, lists, priceAudit>>

\* UPDATE and INSERT are seen when they commit, answered or not.
CommitEdit(e) ==
  LET edit == edits[e]
      x == edit.entry
  IN  /\ edit.at = "commit"
      /\ entries' = [entries EXCEPT ![x] =
           [values |-> edit.values, version |-> entries[x].version + 1]]
      /\ priceAudit' = [priceAudit EXCEPT ![x] =
           Append(priceAudit[x], [before |-> edit.before.values, after |-> edit.values,
                                  shown |-> edit.form.values])]
      /\ edits' = [edits EXCEPT ![e] = NoEdit]
      /\ UNCHANGED lists

\* The database fails, or the request is cancelled.
RollBackEdit(e) ==
  /\ Editing(e)
  /\ edits' = [edits EXCEPT ![e] = NoEdit]
  /\ UNCHANGED <<entries, lists, priceAudit>>

PriceNext ==
  \E e \in Editors :
    \/ ListPrices(e)
    \/ \E x \in Entries, values \in Entered :
         entries[x].version <= MaxEdits /\ SendUpdate(e, x, values)
    \/ LockEntry(e) \/ CheckUnit(e) \/ CommitEdit(e) \/ RollBackEdit(e)

-----------------------------------------------------------------------------
(***************************************************************************)
(* "price changed; refresh before editing", and "Serialize catalog edits   *)
(* so concurrent unit changes cannot create duplicates": an entry's audit  *)
(* rows lead from its first values to its present ones without a gap,      *)
(* every editor saw the values he replaced, and no two entries of a        *)
(* partner and item have one unit in two spellings (Repository.Update).    *)
(***************************************************************************)
ValuesAfter(x, i) == IF i = 0 THEN Original[x] ELSE priceAudit[x][i].after
EntryIsAudited(x) ==
  LET log == priceAudit[x]
  IN  /\ entries[x] = [values |-> ValuesAfter(x, Len(log)), version |-> 1 + Len(log)]
      /\ \A i \in 1..Len(log) :
           /\ log[i].before = ValuesAfter(x, i - 1)
           /\ log[i].shown = log[i].before
           /\ log[i].after # log[i].before
      /\ ~Taken(x, Trimmed[entries[x].values.unit])
PricesAreAudited == \A x \in Entries : EntryIsAudited(x)
=============================================================================
