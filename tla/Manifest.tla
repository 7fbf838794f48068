------------------------------ MODULE Manifest ------------------------------
(***************************************************************************)
(* harness/manifest.py, read: nitpick.toml is read line by line into its   *)
(* tables and its [[test]] entries, and then the entries are held to the   *)
(* rules.  A file that breaks one is refused with ManifestError.           *)
(*                                                                         *)
(* A line is [kind, section, key, value]: what the three patterns of the   *)
(* reader take it for.  The tables and entries are one function, `held`,   *)
(* from a target -- a section, and for an entry its number -- to its keys. *)
(***************************************************************************)
EXTENDS Integers, Sequences, FiniteSets

CONSTANTS
  Files,       \* sequences of lines
  Schema,      \* the keys each table of the schema has, and those of an entry
  AnyKey,      \* the tables that take any key
  Stages, Kinds,
  BadValue,    \* a value the reader cannot read
  ListValue    \* an array

\* No pattern takes an empty name, and no known stage or kind is an array.
ASSUME ManifestAssumption ==
  /\ \A f \in Files : f \in Seq({f[i] : i \in DOMAIN f})
  /\ "" \notin DOMAIN Schema \cup AnyKey
  /\ ListValue \notin Stages \cup Kinds

VARIABLES
  file, past,     \* the file at hand, and how many of its lines are read
  target,      \* the table or entry that takes the next key; its at is 0 for a table
  held,
  entries,     \* how many [[test]] headers are read
  checked,     \* how many entries are held to the rules
  seen,        \* their names
  pc           \* "lines", "entries", "refused", "raised", "accepted"

manifestVars == <<file, past, target, held, entries, checked, seen, pc>>

Nowhere == [section |-> "", at |-> 0]
NextLine == file[past + 1]

ManifestInit ==
  /\ file \in Files
  /\ past = 0 /\ target = Nowhere /\ held = [t \in {} |-> {}] /\ entries = 0
  /\ checked = 0 /\ seen = {} /\ pc = "lines"

With(f, k, v) == [x \in DOMAIN f \cup {k} |-> IF x = k THEN v ELSE f[x]]
Without == [k \in {} |-> BadValue]

Reading(kind) == pc = "lines" /\ past < Len(file) /\ NextLine.kind = kind /\ past' = past + 1

ReadBlank ==
  /\ Reading("blank")
  /\ UNCHANGED <<file, target, held, entries, checked, seen, pc>>

\* [[test]]: a new entry.
ReadEntry ==
  /\ Reading("array") /\ NextLine.section = "test"
  /\ entries' = entries + 1
  /\ target' = [section |-> "test", at |-> entries + 1]
  /\ held' = With(held, target', Without)
  /\ UNCHANGED <<file, checked, seen, pc>>

TableKnown(s) == s # "test" /\ s \in DOMAIN Schema \cup AnyKey

\* Mutant: a header that is given again starts the table anew.
ReadTableAnew ==
  /\ Reading("table") /\ TableKnown(NextLine.section)
  /\ target' = [section |-> NextLine.section, at |-> 0]
  /\ held' = With(held, target', Without)
  /\ UNCHANGED <<file, entries, checked, seen, pc>>

\* [table]: a header that is given again goes on with the table (setdefault).
ReadTable ==
  /\ Reading("table") /\ TableKnown(NextLine.section)
  /\ target' = [section |-> NextLine.section, at |-> 0]
  /\ held' = IF target' \in DOMAIN held THEN held ELSE With(held, target', Without)
  /\ UNCHANGED <<file, entries, checked, seen, pc>>

KeyAllowed(s, k) == s \notin AnyKey => k \in Schema[s]

\* The key has a table to go to, which has it in the schema and not yet in the file.
KeyFine ==
  /\ target # Nowhere /\ KeyAllowed(target.section, NextLine.key)
  /\ NextLine.key \notin DOMAIN held[target]
  /\ NextLine.value # BadValue

ReadKey ==
  /\ Reading("key") /\ KeyFine
  /\ held' = [held EXCEPT ![target] = With(@, NextLine.key, NextLine.value)]
  /\ UNCHANGED <<file, target, entries, checked, seen, pc>>

RefuseLine ==
  /\ pc = "lines" /\ past < Len(file)
  /\ \/ NextLine.kind = "other"
     \/ NextLine.kind = "array" /\ NextLine.section # "test"
     \/ NextLine.kind = "table" /\ ~TableKnown(NextLine.section)
     \/ NextLine.kind = "key" /\ ~KeyFine
  /\ pc' = "refused"
  /\ UNCHANGED <<file, past, target, held, entries, checked, seen>>

LinesRead ==
  /\ pc = "lines" /\ past = Len(file)
  /\ pc' = "entries"
  /\ UNCHANGED <<file, past, target, held, entries, checked, seen>>

Entry(i) == held[[section |-> "test", at |-> i]]
Has(i, k) == k \in DOMAIN Entry(i)

\* Looking an array up in a set raises TypeError, which neither the reader nor run.py catches (in
\* Harness, ReadManifest raises): the name, the stage and the kind are looked up, in that order, each if those before it are fine.
Raises(i, used) ==
  /\ Has(i, "name") /\ Has(i, "stage")
  /\ \/ Entry(i)["name"] = ListValue
     \/ /\ Entry(i)["name"] \notin used
        /\ \/ Entry(i)["stage"] = ListValue
           \/ Entry(i)["stage"] \in Stages /\ Has(i, "kind") /\ Entry(i)["kind"] = ListValue

\* Mutant: an entry may have no path at all.
EntryFinePathless(i, used) ==
  /\ Has(i, "name") /\ Has(i, "stage")
  /\ Entry(i)["name"] \notin used
  /\ Entry(i)["stage"] \in Stages
  /\ Has(i, "kind") => Entry(i)["kind"] \in Kinds
  /\ ~(Has(i, "path") /\ Has(i, "paths"))

EntryFine(i, used) ==
  /\ Has(i, "name") /\ Has(i, "stage")
  /\ Entry(i)["name"] \notin used
  /\ Entry(i)["stage"] \in Stages
  /\ Has(i, "kind") => Entry(i)["kind"] \in Kinds
  /\ Has(i, "path") # Has(i, "paths")

CheckEntry ==
  /\ pc = "entries" /\ checked < entries
  /\ ~Raises(checked + 1, seen) /\ EntryFine(checked + 1, seen)
  /\ checked' = checked + 1 /\ seen' = seen \cup {Entry(checked + 1)["name"]}
  /\ UNCHANGED <<file, past, target, held, entries, pc>>

RefuseEntry ==
  /\ pc = "entries" /\ checked < entries
  /\ pc' = IF Raises(checked + 1, seen) THEN "raised" ELSE "refused"
  /\ Raises(checked + 1, seen) \/ ~EntryFine(checked + 1, seen)
  /\ UNCHANGED <<file, past, target, held, entries, checked, seen>>

Accept ==
  /\ pc = "entries" /\ checked = entries
  /\ pc' = "accepted"
  /\ UNCHANGED <<file, past, target, held, entries, checked, seen>>

ManifestNext ==
  \/ ReadBlank \/ ReadEntry \/ ReadTable \/ ReadKey \/ RefuseLine \/ LinesRead
  \/ CheckEntry \/ RefuseEntry \/ Accept

ManifestSpec == ManifestInit /\ [][ManifestNext]_manifestVars

-----------------------------------------------------------------------------
(* Properties. *)

(* A file as a reader of it sees it, with no reader's state. *)

Headers == {i \in DOMAIN file : file[i].kind \in {"array", "table"}}
Keys == {i \in DOMAIN file : file[i].kind = "key"}

\* The header a line is under.
HeaderOf(i, h) == h \in Headers /\ h < i /\ \A g \in Headers : g < i => g <= h

\* Two keys belong together: under one [[test]], or under headers of one table.
Together(i, j) ==
  \E g, h \in Headers : HeaderOf(i, g) /\ HeaderOf(j, h) /\ file[g].section = file[h].section
                        /\ (file[g].kind = "array" => g = h)

\* The entry of a [[test]] header, as its lines give it.
Given(h, k, v) == \E i \in Keys : HeaderOf(i, h) /\ file[i].key = k /\ file[i].value = v
GivenAny(h, k) == \E i \in Keys : HeaderOf(i, h) /\ file[i].key = k
EntryHeaders == {h \in Headers : file[h].kind = "array"}

LinesHold ==
  /\ \A i \in DOMAIN file : file[i].kind # "other"
  /\ \A h \in Headers : IF file[h].kind = "array" THEN file[h].section = "test"
                        ELSE TableKnown(file[h].section)
  /\ \A i \in Keys : \E h \in Headers : HeaderOf(i, h) /\ KeyAllowed(file[h].section, file[i].key)
  /\ \A i \in Keys : file[i].value # BadValue
  /\ \A i, j \in Keys : Together(i, j) /\ file[i].key = file[j].key => i = j

EntriesHold ==
  \A h \in EntryHeaders :
    /\ GivenAny(h, "name")
    /\ \A g \in EntryHeaders, v \in {file[i].value : i \in Keys} :
         Given(g, "name", v) /\ Given(h, "name", v) => g = h
    /\ \E s \in Stages : Given(h, "stage", s)
    /\ GivenAny(h, "kind") => \E k \in Kinds : Given(h, "kind", k)
    /\ GivenAny(h, "path") # GivenAny(h, "paths")
    /\ ~Given(h, "name", ListValue)

\* A file is accepted exactly when each of its lines, and then each of its entries, keeps the
\* rules; one that raises is none the reader would have accepted.
AcceptsTheRules ==
  pc \in {"accepted", "refused", "raised"} => (pc = "accepted" <=> LinesHold /\ EntriesHold)

\* Nothing a file gives is lost: every key of an accepted file is held, with its value.
NothingLost ==
  pc = "accepted" =>
    \A i \in Keys : \E t \in DOMAIN held :
      /\ file[i].key \in DOMAIN held[t] /\ held[t][file[i].key] = file[i].value
      /\ \E h \in Headers : HeaderOf(i, h) /\ file[h].section = t.section
                            /\ (t.section = "test" => t.at = Cardinality({g \in EntryHeaders : g <= h}))
=============================================================================
