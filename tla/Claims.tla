------------------------------- MODULE Claims -------------------------------
(***************************************************************************)
(* meta/roadmap/0.0/0.0.4_tools/claims.py, its commands decls (Decls) and  *)
(* claims: each file cut into paragraphs and sentences, each sentence that *)
(* makes a claim on a row's subject found carried by its correction,       *)
(* classed by a listed line, or bare, and a bare one reported.             *)
(*                                                                         *)
(* A line is its form and what it says, a set of                           *)
(*   <<"subject", r>>, <<"claim", r>>, <<"anchor", r>>  row r's patterns   *)
(*                            match there;                                 *)
(*   <<"note">>               a dated note opens the line;                 *)
(*   <<"fragment", g>>        the text g of a listed line stands there;    *)
(*   <<"runs on">>            its last sentence ends on a later line, when *)
(*                            the paragraph goes on; else a line ends one; *)
(*   <<"words", w>>           what else tells two headings apart.          *)
(* Of a line's anchors one stands behind its note.  A text -- a paragraph, *)
(* a sentence, a section -- is the set of its lines, read in their order.  *)
(***************************************************************************)
EXTENDS Decls

CONSTANTS
  PathsOf,  \* the rows of claims_rows.tsv, each with its paths: {"sweep"} or the paths it reads
  Tasks     \* what claims may find: records [git, files, listed, asked], files in the order of their paths, each
            \* [path, there, kind, md, plan, lines]: "skipped" (a patch, a source), a "digest", or "read"

Says == {<<what, r>> : what \in {"subject", "claim", "anchor"}, r \in DOMAIN PathsOf}

IsSequence(s) == s \in Seq({s[k] : k \in DOMAIN s})

ASSUME TasksAssumption ==
  \A t \in Tasks :
    /\ IsSequence(t.files) /\ IsSequence(t.listed)
    /\ \A i \in DOMAIN t.files : IsSequence(t.files[i].lines) /\ t.files[i].md \in BOOLEAN

ASSUME RowsAssumption ==
  \A t \in Tasks : \A i \in DOMAIN t.files : \A k \in DOMAIN t.files[i].lines :
    LET line == t.files[i].lines[k]
    IN /\ line.form \in {"blank", "fence", "title", "part", "record", "item", "marker", "text"}
       /\ line.form \in {"blank", "marker"} => line.says = {}
       /\ \A w \in line.says : w \in Says \/ w[1] \in {"note", "fragment", "runs on", "words"}

VARIABLES
  task,     \* the tree, the listed lines and the rows asked for (all of them, when {})
  rows,     \* the rows still to be checked
  file,     \* how many files the row at hand is past
  lines,    \* the prose of the file at hand
  at,       \* how many of its lines are cut
  cur,      \* the paragraph begun: its lines
  head,     \* the `###` heading it stands under, a set of at most one line
  block,    \* its block: the blank lines before it
  paras,    \* the paragraphs cut: records [on, head, block]
  found,    \* the candidates: records [row, file, line, state]
  used,     \* the listed lines that one of them was taken for
  doing     \* "idle", "cut" a file, or "decls"

cutVars == <<lines, at, cur, head, block, paras>>
claimsVars == <<task, rows, file, cutVars, found, used, doing, declsVars>>

BlankLine == [form |-> "blank", says |-> {}]

\* What a command does not read.
NoTask    == [git |-> FALSE, files |-> <<>>, listed |-> <<>>, asked |-> {}]
NoSources == [git |-> FALSE, safety |-> FALSE, files |-> {}, listed |-> {}]

ClaimsInit ==
  /\ \/ doing = "idle" /\ task \in Tasks /\ sources = NoSources
     \/ doing = "decls" /\ task = NoTask /\ sources \in SourceTrees
  /\ rows = {} /\ file = 0
  /\ lines = <<>> /\ at = 0 /\ cur = {} /\ head = {} /\ block = 0 /\ paras = <<>>
  /\ found = {} /\ used = {} /\ faults = {} /\ exit = "running"

-----------------------------------------------------------------------------
(* prose *)

\* Mutant: what opens the fence and what closes it are not told apart.
ProseFenced(f) ==
  [k \in DOMAIN f.lines |-> IF f.md /\ \E j \in 1..k : f.lines[j].form = "fence" THEN BlankLine ELSE f.lines[k]]

\* A file's lines, those of a Markdown file's fenced blocks blank, up to a plan's execution record.
Prose(f) ==
  LET fenced[k \in 0..Len(f.lines)] == k > 0 /\ ((f.lines[k].form = "fence") # fenced[k - 1])
      kept == [k \in DOMAIN f.lines |->
                 IF f.md /\ (fenced[k] \/ f.lines[k].form = "fence") THEN BlankLine ELSE f.lines[k]]
      records == {k \in DOMAIN kept : f.plan /\ kept[k].form = "record"}
  IN IF records = {} THEN kept ELSE SubSeq(kept, 1, Min(records) - 1)

-----------------------------------------------------------------------------
(* paragraphs *)

File == task.files[file]
Line == lines[at + 1]

\* Outside Markdown a # opens a comment, and a comment's marker alone is a blank line.
Blank(line)  == line.form = "blank" \/ (~File.md /\ line.form = "marker")
Starts(line) == line.form = "item" \/ (File.md /\ line.form \in {"title", "part", "record"})

Flushed == IF cur = {} THEN paras ELSE Append(paras, [on |-> cur, head |-> head, block |-> block])

CutOn == doing = "cut" /\ at < Len(lines) /\ at' = at + 1 /\ UNCHANGED lines

HeadNext ==
  CASE File.md /\ Line.form = "title" -> {Line}
    [] File.md /\ Line.form \in {"part", "record"} -> {}
    [] OTHER -> head

EndBlock ==
  /\ CutOn /\ Blank(Line)
  /\ paras' = Flushed /\ cur' = {} /\ block' = block + 1
  /\ UNCHANGED <<head, task, rows, file, found, used, doing, declsVars>>

StartParagraph ==
  /\ CutOn /\ ~Blank(Line) /\ Starts(Line)
  /\ paras' = Flushed /\ cur' = {at + 1} /\ head' = HeadNext
  /\ UNCHANGED <<block, task, rows, file, found, used, doing, declsVars>>

GoOn ==
  /\ CutOn /\ ~Blank(Line) /\ ~Starts(Line)
  /\ cur' = cur \cup {at + 1}
  /\ UNCHANGED <<head, block, paras, task, rows, file, found, used, doing, declsVars>>

-----------------------------------------------------------------------------
(* candidates *)

SaidOn(on) == UNION {lines[k].says : k \in on}

\* An anchor behind a dated note's opening, in the text of these lines.
CarriedByNote(on, r) ==
  \E i, j \in on : i <= j /\ <<"note">> \in lines[i].says /\ <<"anchor", r>> \in lines[j].says

\* The lines on which a sentence of a paragraph ends, and the sentence that ends on one.
SentenceEnds(on) == {e \in on : <<"runs on">> \notin lines[e].says \/ \A k \in on : k <= e}
SentenceTo(on, e) == {k \in on : k <= e /\ \A d \in SentenceEnds(on) : d < k \/ e <= d}
Sentences(on) == {SentenceTo(on, e) : e \in SentenceEnds(on)}

\* The sentence before, or none.
Before(s, on) == UNION {t \in Sentences(on) : \E k \in t : k \notin s /\ k + 1 \in s}

IsClaim(s, on, r) ==
  /\ <<"claim", r>> \in SaidOn(s)
  /\ <<"subject", r>> \in SaidOn(s) \cup SaidOn(Before(s, on))

\* The line of a sentence's first match of the claim.
ClaimLine(s, r) == Min({k \in s : <<"claim", r>> \in lines[k].says})

\* The text of the sections under a heading of this text, wherever they stand in the file.
Section(ps, h) == UNION {p.on : p \in {p \in ToSet(ps) : p.head = h}}

\* The blocks whose next one is opened by a dated note with the anchor.
Beneath(ps, r) ==
  {ps[k].block - 1 : k \in {k \in DOMAIN ps :
     /\ k = 1 \/ ps[k - 1].block # ps[k].block
     /\ <<"note">> \in lines[Min(ps[k].on)].says /\ <<"anchor", r>> \in SaidOn(ps[k].on)}}

Carried(s, p, ps, r) ==
  \/ <<"anchor", r>> \in SaidOn(s)
  \/ CarriedByNote(p.on, r) \/ p.block \in Beneath(ps, r)
  \/ \E h \in p.head : <<"anchor", r>> \in h.says \/ CarriedByNote(Section(ps, p.head), r)

Candidates(ps, r) ==
  UNION {{[line |-> ClaimLine(s, r), says |-> SaidOn(s), carried |-> Carried(s, p, ps, r)] :
            s \in {s \in Sentences(p.on) : IsClaim(s, p.on, r)}} : p \in ToSet(ps)}

-----------------------------------------------------------------------------
(* check_claims and claims *)

\* Mutant: a listed line's fragment, in whatever file.
ListedAnywhere(c, r) ==
  {k \in DOMAIN task.listed : task.listed[k].row = r /\ <<"fragment", task.listed[k].fragment>> \in c.says}

\* The listed lines of the row that hold a candidate of the file at hand.
ListedFor(c, r) ==
  {k \in DOMAIN task.listed : /\ task.listed[k].row = r /\ task.listed[k].path = File.path
                              /\ <<"fragment", task.listed[k].fragment>> \in c.says}

There == {i \in DOMAIN task.files : task.files[i].there /\ task.files[i].kind # "skipped"}
ReadsFile(r, i) ==
  /\ i \in There /\ task.files[i].kind # "digest"
  /\ IF PathsOf[r] = {"sweep"} THEN ~task.files[i].plan ELSE task.files[i].path \in PathsOf[r]

Asked == IF task.asked = {} THEN DOMAIN PathsOf ELSE task.asked

ClaimsUnreadable ==
  /\ doing = "idle" /\ exit = "running" /\ rows = {} /\ (~task.git \/ There = {})
  /\ exit' = "2"
  /\ UNCHANGED <<task, rows, file, cutVars, found, used, doing, sources, faults>>

\* A row that is not in the table: SystemExit, of status 1.
NoSuchRow ==
  /\ doing = "idle" /\ exit = "running" /\ rows = {} /\ task.git /\ There # {}
  /\ ~(task.asked \subseteq DOMAIN PathsOf)
  /\ faults' = {<<"no row", r>> : r \in task.asked \ DOMAIN PathsOf} /\ exit' = "1"
  /\ UNCHANGED <<task, rows, file, cutVars, found, used, doing, sources>>

TakeRows ==
  /\ doing = "idle" /\ exit = "running" /\ rows = {} /\ task.git /\ There # {}
  /\ task.asked \subseteq DOMAIN PathsOf
  /\ rows' = Asked
  /\ UNCHANGED <<task, file, cutVars, found, used, doing, declsVars>>

\* Rows are checked in the table's order; none asks what another found.
Row == CHOOSE r \in rows : TRUE

OpenFile ==
  /\ doing = "idle" /\ rows # {} /\ file < Len(task.files)
  /\ file' = file + 1
  /\ IF ReadsFile(Row, file + 1)
     THEN /\ doing' = "cut" /\ lines' = Prose(task.files[file + 1])
          /\ at' = 0 /\ cur' = {} /\ head' = {} /\ block' = 0 /\ paras' = <<>>
     ELSE UNCHANGED <<doing, cutVars>>
  /\ UNCHANGED <<task, rows, found, used, declsVars>>

\* Mutant: a listed line counts as used by a candidate that needs none.
TakesAny(c) == ListedFor(c, Row)

Takes(c) == IF c.carried THEN {} ELSE ListedFor(c, Row)

\* Its candidates, each bare one classed by the first listed line that holds it.
JudgeFile ==
  /\ doing = "cut" /\ at = Len(lines)
  /\ LET cs == Candidates(Flushed, Row)
     IN /\ found' = found \cup {[row |-> Row, file |-> file, line |-> c.line,
                                 state |-> IF c.carried THEN "carried" ELSE IF Takes(c) # {} THEN "classed" ELSE "bare"] :
                                  c \in cs}
        /\ used' = used \cup {Min(Takes(c)) : c \in {c \in cs : Takes(c) # {}}}
  /\ doing' = "idle"
  /\ UNCHANGED <<task, rows, file, cutVars, declsVars>>

EndRow ==
  /\ doing = "idle" /\ rows # {} /\ file = Len(task.files)
  /\ faults' = faults \cup {<<"bare", c>> : c \in {c \in found : c.row = Row /\ c.state = "bare"}}
                      \cup {<<"stale", k>> : k \in {k \in DOMAIN task.listed : task.listed[k].row = Row} \ used}
  /\ rows' = rows \ {Row} /\ file' = 0
  /\ exit' = IF rows' # {} THEN "running" ELSE IF faults' = {} THEN "0" ELSE "1"
  /\ UNCHANGED <<task, cutVars, found, used, doing, sources>>

\* main's other command that reads the tree as it is.
RunDecls == doing = "decls" /\ DeclsNext /\ UNCHANGED <<task, rows, file, cutVars, found, used, doing>>

ClaimsNext ==
  \/ ClaimsUnreadable \/ NoSuchRow \/ TakeRows \/ OpenFile
  \/ EndBlock \/ StartParagraph \/ GoOn \/ JudgeFile \/ EndRow
  \/ RunDecls

ClaimsSpec == ClaimsInit /\ [][ClaimsNext]_claimsVars
-----------------------------------------------------------------------------
(* The reference: what claims.py's header says of lines, over the file as it stands.  A block is a run of
   lines between blank ones, so between two blank lines there is an empty one. *)

FencesTo(f, k) == Cardinality({j \in 1..k : f.lines[j].form = "fence"})
Fenced(f, k)   == f.md /\ (f.lines[k].form = "fence" \/ FencesTo(f, k) % 2 = 1)
Recorded(f, k) == f.plan /\ \E j \in 1..k : f.lines[j].form = "record" /\ ~Fenced(f, j)

Parts(f, k) ==
  \/ Fenced(f, k) \/ Recorded(f, k)
  \/ f.lines[k].form = "blank" \/ (~f.md /\ f.lines[k].form = "marker")
Heads(f, k) == f.md /\ ~Parts(f, k) /\ f.lines[k].form \in {"title", "part", "record"}

\* Two lines of one paragraph.
Together(f, i, j) ==
  /\ \A m \in i..j : ~Parts(f, m)
  /\ \A m \in (i + 1)..j : ~Heads(f, m) /\ f.lines[m].form # "item"

\* How many sentences end between two lines.
Ends(f, i, j) == Cardinality({m \in i..(j - 1) : <<"runs on">> \notin f.lines[m].says})

OneSentence(f, i, j) ==
  LET lo == Min({i, j}) hi == Max({i, j}) IN Together(f, lo, hi) /\ Ends(f, lo, hi) = 0

SaysAt(f, k, w) == w \in f.lines[k].says

ClaimAt(f, r, k) ==
  /\ SaysAt(f, k, <<"claim", r>>)
  /\ \A j \in 1..(k - 1) : OneSentence(f, j, k) => ~SaysAt(f, j, <<"claim", r>>)
  /\ \E j \in DOMAIN f.lines :
       /\ SaysAt(f, j, <<"subject", r>>)
       /\ OneSentence(f, j, k) \/ (j < k /\ Together(f, j, k) /\ Ends(f, j, k) = 1)

\* The line of the `###` heading that a line stands under, or none; and the section it stands in.
Heading(f, k) ==
  LET above == {j \in 1..k : Heads(f, j)}
  IN {h \in IF above = {} THEN {} ELSE {Max(above)} : f.lines[h].form = "title"}
InSection(f, k) == {j \in DOMAIN f.lines : ~Parts(f, j) /\ Heading(f, j) = Heading(f, k)}

\* A dated note and, after it, the anchor, on these lines.
NoteOn(f, r, on) ==
  \E i, j \in on : i <= j /\ SaysAt(f, i, <<"note">>) /\ SaysAt(f, j, <<"anchor", r>>)

Near(f, r, k) ==
  \/ \E j \in DOMAIN f.lines : SaysAt(f, j, <<"anchor", r>>) /\ OneSentence(f, j, k)
  \/ NoteOn(f, r, {j \in DOMAIN f.lines : Together(f, Min({j, k}), Max({j, k}))})
  \/ \E b \in (k + 1)..(Len(f.lines) - 1) :
       /\ Parts(f, b) /\ \A m \in k..(b - 1) : ~Parts(f, m)
       /\ SaysAt(f, b + 1, <<"note">>)
       /\ \E j \in (b + 1)..Len(f.lines) : SaysAt(f, j, <<"anchor", r>>) /\ Together(f, b + 1, j)
  \/ \E h \in Heading(f, k) : SaysAt(f, h, <<"anchor", r>>) \/ NoteOn(f, r, InSection(f, k))

\* The lines of all the sections whose heading has the text of a line's.
InNamesakes(f, k) ==
  {j \in DOMAIN f.lines : /\ ~Parts(f, j)
                          /\ \E h \in Heading(f, k), g \in Heading(f, j) : f.lines[g] = f.lines[h]}

\* Where the code goes beyond its header: the note is in another section of the same heading text.
ByNamesake(f, r, k) == InNamesakes(f, k) # InSection(f, k) /\ NoteOn(f, r, InNamesakes(f, k))

\* The listed lines that hold the bare claim at a line.
Held(f, r, k) ==
  {n \in DOMAIN task.listed :
     /\ task.listed[n].row = r /\ task.listed[n].path = f.path
     /\ \E j \in DOMAIN f.lines : OneSentence(f, j, k) /\ SaysAt(f, j, <<"fragment", task.listed[n].fragment>>)}

\* The claims of the rows asked for in the files they read.
AllClaims ==
  UNION {{<<q[1], q[2], k>> : k \in {k \in DOMAIN task.files[q[2]].lines : ClaimAt(task.files[q[2]], q[1], k)}} :
           q \in {q \in Asked \X DOMAIN task.files : ReadsFile(q[1], q[2])}}

\* Near no correction, nor excused by a namesake of its section.
IsBare(c) == ~Near(task.files[c[2]], c[1], c[3]) /\ ~ByNamesake(task.files[c[2]], c[1], c[3])
HeldBy(c) == Held(task.files[c[2]], c[1], c[3])

-----------------------------------------------------------------------------
(* Properties. *)

Checked == doing = "idle" /\ exit \in {"0", "1"} /\ task.asked \subseteq DOMAIN PathsOf

\* claims.py's header: a sentence is a candidate when its claim matches it and its subject matches
\* it or the sentence before it in the same paragraph.  None is lost where files are cut, and none
\* is made of two paragraphs, of a fence's lines or of a plan's record.
EveryClaimJudged == {<<c.row, c.file, c.line>> : c \in found} = AllClaims

\* claims.py's header: a candidate is carried when its correction stands in its sentence, in a note
\* of its paragraph or at the head of the block beneath, or in its section.  Each such one is carried,
\* and no other but one whose note is in a namesake of its section: the code joins sections by their
\* heading's text (CarriedInItsSection, below, is the header without that).
CorrectionIsNear == \A c \in found : c.state = "carried" <=> ~IsBare(<<c.row, c.file, c.line>>)

\* The candidates of a check are the header's, and each is carried by what the header says and, beyond
\* it, by a namesake's note alone: no line, fence, list or block far from it excuses a claim.
ClaimsAsWritten == Checked => EveryClaimJudged /\ CorrectionIsNear

\* claims.py's header, lines 32-35: a correction carries a claim "in the heading of the `###` section it
\* stands in, or in a dated note there", and nowhere else in the file.
CarriedInItsSection ==
  Checked => \A c \in found : c.state = "carried" => Near(task.files[c.file], c.row, c.line)

\* A listed line is called stale only when no bare candidate holds it, but for those that an earlier
\* line of the same row takes; so each line that stays excuses a claim that nothing else does.
StaleIsUnheld ==
  Checked => \A k \in DOMAIN task.listed : task.listed[k].row \in Asked =>
    (<<"stale", k>> \in faults <=>
       \A c \in AllClaims : IsBare(c) /\ k \in HeldBy(c) => \E j \in HeldBy(c) : j < k)

\* claims.py's header: it exits 0 when it finds nothing, and 2 when the tree cannot be read.  So a
\* run that passes read files, and each claim in them is near its correction, excused by a namesake of
\* its section, or listed at its path.
ExitIsTrue ==
  doing = "idle" =>
    /\ exit = "0" => There # {} /\ \A c \in AllClaims : IsBare(c) => HeldBy(c) # {}
    /\ exit = "1" => \/ task.asked \ DOMAIN PathsOf # {}
                     \/ \E c \in AllClaims : IsBare(c) /\ HeldBy(c) = {}
                     \/ \E k \in DOMAIN task.listed : task.listed[k].row \in Asked /\ <<"stale", k>> \in faults
    /\ exit = "2" => ~task.git \/ There = {}
=============================================================================
