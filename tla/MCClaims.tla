------------------------------ MODULE MCClaims ------------------------------
(***************************************************************************)
(* Every Markdown file of four lines of these forms; plans and other text; *)
(* sections of one text or two; two rows, their paths and listed lines;    *)
(* and the declarations of three files.                                    *)
(***************************************************************************)
EXTENDS Claims

MCPathsOf == [r1 |-> {"sweep"}, r2 |-> {"a.md"}]

On(form, says) == [form |-> form, says |-> says]
Subj == <<"subject", "r1">>   Claim == <<"claim", "r1">>   Anchor == <<"anchor", "r1">>
Note == <<"note">>            RunsOn == <<"runs on">>      Frag(g) == <<"fragment", g>>

Made == On("text", {Subj, Claim})
Plain == On("text", {})
Fence == On("fence", {})

Doc(path, md, plan, ls) == [path |-> path, there |-> TRUE, kind |-> "read", md |-> md, plan |-> plan, lines |-> ls]
Task(fs, listed, asked) == [git |-> TRUE, files |-> fs, listed |-> listed, asked |-> asked]
Alone(f) == Task(<<f>>, <<>>, {"r1"})

Forms ==
  {BlankLine, Made, On("text", {Subj}), On("text", {Claim}), On("text", {Anchor}), On("text", {Note, Anchor}),
   On("text", {Subj, RunsOn}), On("item", {Claim}), Fence, On("title", {Anchor}), On("part", {})}
MCFiles == {Alone(Doc("a.md", TRUE, FALSE, ls)) : ls \in UNION {[1..n -> Forms] : n \in 1..4}}

\* Notes whose anchor is behind, blocks beneath, and namesake sections.
T(w) == On("title", {<<"words", w>>})
MCSections ==
  {Alone(Doc("a.md", TRUE, FALSE, <<a, Made, b, c, d, e>>)) :
     a \in {T(1), BlankLine, Fence, On("title", {Anchor})},
     b \in {T(1), T(2), On("part", {}), BlankLine, On("text", {Note})},
     c \in {On("text", {Note}), On("item", {Note, Anchor}), BlankLine, Fence},
     d \in {T(1), BlankLine, On("text", {Note, Anchor}), Fence},
     e \in {On("text", {Anchor}), On("item", {Note, Anchor}), On("text", {Claim})}}

\* Plans, which `sweep` leaves out, and files where # opens a comment.
Both(f) == On(f, {Subj, Claim, <<"subject", "r2">>, <<"claim", "r2">>})
MCOther ==
  {Task(<<Doc("a.md", md, plan, <<a, b, Both("text"), c>>)>>, <<>>, asked) :
     md \in BOOLEAN, plan \in BOOLEAN,
     a \in {Fence, On("record", {}), Both("item"), On("marker", {})},
     b \in {Fence, On("record", {}), On("part", {}), On("marker", {}), BlankLine},
     c \in {On("text", {<<"anchor", "r2">>}), On("item", {<<"anchor", "r2">>, Note}), On("marker", {})},
     asked \in {{}, {"r2"}}}

Listed(r, p, g) == [row |-> r, path |-> p, fragment |-> g]
MCListed ==
  {Task(<<Doc("a.md", TRUE, FALSE, a), [Doc("b.md", TRUE, FALSE, b) EXCEPT !.kind = kind]>>, listed, asked) :
     a \in {<<Plain>>, <<On("text", {Subj, Claim, Frag("f")})>>, <<On("text", {Subj, Claim, Frag("f"), Frag("g")})>>,
            <<On("text", {Subj, Claim, Anchor, Frag("f")})>>},
     b \in {<<On("text", {Subj, Claim, Frag("f")})>>, <<On("text", {Subj, Claim, Frag("g")}), On("item", {Subj, Frag("f"), RunsOn}), On("text", {Claim})>>},
     kind \in {"read", "digest", "skipped"},
     listed \in {<<Listed("r1", "a.md", "f")>>, <<Listed("r1", "a.md", "f"), Listed("r1", "a.md", "g")>>,
                 <<Listed("r1", "b.md", "f"), Listed("r2", "a.md", "f")>>,
                 <<Listed("r1", "a.md", "f"), Listed("r1", "b.md", "f"), Listed("r1", "b.md", "g")>>},
     asked \in {{}, {"r1"}, {"r1", "r3"}}}

MCUnread ==
  {[git |-> git, files |-> fs, listed |-> <<>>, asked |-> {}] :
     git \in BOOLEAN,
     fs \in {<<>>, <<[Doc("a.md", TRUE, FALSE, <<Made>>) EXCEPT !.there = FALSE]>>,
             <<[Doc("LICENSE", FALSE, FALSE, <<Made>>) EXCEPT !.kind = "skipped"]>>}}

MCTasks == MCFiles \cup MCSections \cup MCOther \cup MCListed \cup MCUnread

MCSpecNames == {"EParseState", "EParseEncode"}
Npk(p, m, ns) == [path |-> p, mod |-> m, declares |-> ns, there |-> TRUE]
Sequences1 == {<<>>, <<"EParseState">>, <<"EParseEncode">>, <<"EParseEncode", "EParseState">>, <<"EParseState", "EParseState", "EParseEncode">>,
               <<"EParseState", "EOther", "EParseEncode">>}
MCSourceTrees ==
  {[git |-> git, safety |-> safety, listed |-> listed,
    files |-> {[Npk("nparse.npk", m, ns) EXCEPT !.there = there], Npk("doc.npk", "doc", ds), Npk("probe.npk", "probe", ps)}] :
     git \in BOOLEAN, safety \in BOOLEAN, listed \in SUBSET {"probe.npk", "nparse.npk", "gone.npk"}, there \in BOOLEAN,
     m \in {"nparse", "errors"}, ns \in Sequences1, ds \in {<<>>, <<"EParseState">>}, ps \in {<<>>, <<"EOther">>}}
=============================================================================
