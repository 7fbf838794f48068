----------------------------- MODULE MCReaders -----------------------------
(***************************************************************************)
(* The two readers, each over its own files while the other has an empty   *)
(* one.  Markers: every file of up to three lines of any marker, at the    *)
(* borders of its values, and of up to five lines of errors and their      *)
(* sites.  Manifest: files of up to five lines over two tables, entries    *)
(* and their keys, and files of two whole entries in which one line or two *)
(* are changed.                                                            *)
(***************************************************************************)
EXTENDS Markers, Manifest

L(marker, value) == [marker |-> marker, value |-> value]

MCLines ==
  {L(m, Unreadable) : m \in {"prose", "refused", "expect-exit", "expect-error-at", "pending-until"}}
    \cup {L("expect-exit", v) : v \in {-65, -64, 0, 255, 256}}
    \cup {L("stress", v) : v \in {0, 2}} \cup {L("mem-cap-mib", v) : v \in {-1, 1, 64}}
    \cup {L("expect-error", v) : v \in Codes \cup {Unreadable}}
    \cup {L("expect-error-at", v) : v \in Sites} \cup {L("pending-until", v) : v \in Waits}

MCErrors ==
  {L("prose", Unreadable)} \cup {L("expect-error", v) : v \in Codes}
    \cup {L("expect-error-at", v) : v \in Sites}

MCTexts == UNION {[1..k -> MCLines] : k \in 0..3} \cup UNION {[1..k -> MCErrors] : k \in 4..5}

MCSchema == [s \in {"build", "test"} |->
  IF s = "build" THEN {"name"} ELSE {"name", "stage", "kind", "path", "paths"}]
MCAnyKey == {"dependencies"}

Header(kind, section) == [kind |-> kind, section |-> section, key |-> "", value |-> ""]
KeyLine(key, value) == [kind |-> "key", section |-> "", key |-> key, value |-> value]

Test == Header("array", "test")
TwoTables ==
  {Header("table", s) : s \in {"build", "dependencies", "test", "unknown"}}
    \cup {KeyLine("name", v) : v \in {"a", "b", "bad"}} \cup {KeyLine("stage", "program")}
    \cup {Header("array", "build"), Header("blank", ""), Header("other", "")}

MCShort == UNION {[1..k -> TwoTables] : k \in 0..3}
  \cup {<<Header("table", "build"), KeyLine("name", "a"), h>> \o rest :
          h \in TwoTables, rest \in [1..2 -> TwoTables]}

Lines ==
  {KeyLine("name", v) : v \in {"a", "b", "list"}}
    \cup {KeyLine("stage", v) : v \in {"program", "no stage", "list"}}
    \cup {KeyLine("kind", v) : v \in {"positive", "no kind", "list"}}
    \cup {KeyLine("path", "d"), KeyLine("paths", "list")} \cup {Header("blank", "")}

\* Two entries of up to four lines: the second whole but for one line, the first any.
MCEntries ==
  {<<Test>> \o first \o <<Test, KeyLine("name", "b"), KeyLine("stage", "program"), last>> :
     first \in [1..3 -> Lines], last \in Lines}
    \cup {<<Test, KeyLine("name", "a"), KeyLine("stage", "program")>> \o rest : rest \in [1..2 -> Lines]}

MCFiles == MCShort \cup MCEntries

ReadersInit ==
  \/ text = <<>> /\ Init /\ ManifestInit
  \/ file = <<>> /\ ManifestInit /\ Init

ReadersNext ==
  \/ file = <<>> /\ Next /\ UNCHANGED manifestVars
  \/ text = <<>> /\ ManifestNext /\ UNCHANGED markersVars

ReadersSpec == ReadersInit /\ [][ReadersNext]_<<markersVars, manifestVars>>
=============================================================================
