------------------------------- MODULE MCSelect -------------------------------
(***************************************************************************)
(* Model checking of Select: families of requests, each varying one thing. *)
(***************************************************************************)
EXTENDS Select

MCLimits == [raw |-> 4, flattened |-> 4, depth |-> 2, name |-> 2, detail |-> 2,
             path |-> 3, storage |-> 16, matches |-> 3]
MCTextBytes == [n \in 0 .. 3 |-> IF n = 0 THEN 0 ELSE IF n = 3 THEN 4 ELSE 1]

Wide == <<240, 159, 152, 128>>
Pieces == {<<97>>, <<32>>, <<CR>>, <<LF>>, <<195, 169>>, Wide}
Texts == {FoldLeft(LAMBDA text, piece : text \o piece, << >>, s) :
          s \in UNION {[1 .. n -> Pieces] : n \in 0 .. 4}}

-----------------------------------------------------------------------------
(* What the server answers.                                                *)

At(line, character) == [line |-> line, character |-> character]
LspRange(from, to) == [start |-> from, end |-> to]
Ranges == {LspRange(At(0, 0), At(0, 1)), LspRange(At(0, 0), At(1, 2)),
           LspRange(At(0, 1), At(0, 9)), LspRange(At(1, 1), At(1, 2)),
           LspRange(At(0, 0), At(0, 9)), LspRange(At(1, 0), At(2, 0))}

Symbol(name, kind, range, children) ==
  [name |-> name, kind |-> kind, detail |-> 0, range |-> range,
   selection |-> range, children |-> children]

Answer(shape, items) == {[shape |-> shape, items |-> items, encoding |-> e,
                          identity |-> 1] : e \in Encodings}

Trees ==
  {<<Symbol(1, 12, r, << >>)>> : r \in Ranges}
  \cup {<<Symbol(1, 12, p[1], << >>), Symbol(p[3], p[4], p[2], << >>)>> :
          p \in Ranges \X Ranges \X {1, 2} \X {12, 99}}
  \cup {<<Symbol(2, 5, p[1], <<Symbol(1, 12, p[2], << >>)>>)>> : p \in Ranges \X Ranges}

Whole == LspRange(At(0, 0), At(0, 1))
Nested == Symbol(1, 5, Whole, <<Symbol(1, 5, Whole, <<Symbol(1, 5, Whole, << >>)>>)>>)
\* Three symbols with the same bytes, the first and the last of them equal.
Clamped == LspRange(At(0, 0), At(0, 9))
Apart == [k \in 1 .. 3 |-> [Symbol(1, 5, IF k = 2 THEN Clamped ELSE Whole, << >>)
                             EXCEPT !.selection = Whole]]
Odd == {<<Symbol(0, 5, Whole, << >>)>>, <<Symbol(3, 5, Whole, << >>)>>, <<Nested>>,
        <<[Symbol(1, 5, Whole, << >>) EXCEPT !.selection = LspRange(At(1, 0), At(1, 1))]>>,
        [k \in 1 .. 5 |-> Symbol(1, 5, Whole, << >>)],
        [k \in 1 .. 4 |-> Symbol(1, k, Whole, << >>)],
        [k \in 1 .. 3 |-> Symbol(1, k, Whole, << >>)],
        [k \in 1 .. 3 |-> Symbol(1, 5, Clamped, << >>)], Apart}

MCReplies ==
  UNION {Answer("hierarchical", items) : items \in Trees \cup Odd}
  \cup UNION {Answer(shape, << >>) : shape \in {"null", "other"}}
  \cup UNION {Answer(shape, <<Symbol(1, 5, Whole, << >>)>>) : shape \in {"flat", "mixed"}}
  \cup {[shape |-> "null", items |-> << >>, encoding |-> "utf-8", identity |-> i] :
          i \in {0, 3}}

-----------------------------------------------------------------------------
(* The machine: a server on PATH, a link from it into the workspace, and   *)
(* programs of the workspace.                                              *)

MCRoot == <<"w">>
There(path, kind) == [leads |-> path, kind |-> kind]
World ==
  [p \in {<<"w">>, <<"w", "sub">>, <<"w", "out">>, <<"bin", "rust-analyzer">>,
          <<"bin", "mine">>, <<"link", "rust-analyzer">>, <<"link", "mine">>,
          <<"w", "tool">>, <<"w", "bin", "tool">>, <<"w", "sub", "bin", "tool">>} |->
     CASE p[1] = "link"     -> There(<<"w", "tool">>, "executable")
       [] p = <<"w", "out">> -> There(<<"elsewhere">>, "directory")
       [] p \in {<<"w">>, <<"w", "sub">>} -> There(p, "directory")
       [] OTHER -> There(p, "executable")]

OnPath(directories) == [k \in DOMAIN directories |->
                          [absolute |-> TRUE, path |-> <<directories[k]>>]]

Word(value) == [value |-> value, bytes |-> 1, permitted |-> TRUE]
Raw(id, extension, program, allow, root) ==
  [id |-> Word(id), extensions |-> <<Word(extension)>>, language |-> Word("l"),
   program |-> program, program_bytes |-> 1, absolute |-> FALSE, arguments |-> 0,
   json |-> 0, project_root |-> root, timeout |-> 1, allow |-> allow]
Config(servers) ==
  [state |-> "read", explicit |-> TRUE, raw |-> [version |-> 1, servers |-> servers]]
NoConfig == [state |-> "NotFound", explicit |-> FALSE]

Mine == Raw("mine", "rs", <<"mine">>, FALSE, <<".">>)
Absolute == [Mine EXCEPT !.program = <<"w", "tool">>, !.absolute = TRUE]
Local == [Mine EXCEPT !.program = <<"bin", "tool">>, !.project_root = <<"sub">>]
Configs ==
  {NoConfig, [NoConfig EXCEPT !.explicit = TRUE],
   [state |-> "ConfigurationTooLarge", explicit |-> TRUE],
   [Config(<< >>) EXCEPT !.raw.version = 2]}
  \cup {Config(<<raw>>) : raw \in
          {Mine, Absolute, Local, [Absolute EXCEPT !.allow = TRUE],
           [Local EXCEPT !.allow = TRUE], [Mine EXCEPT !.allow = TRUE],
           [Mine EXCEPT !.id = Word("rust")], [Mine EXCEPT !.id.permitted = FALSE],
           [Mine EXCEPT !.language = Word("")], [Mine EXCEPT !.program = << >>],
           [Mine EXCEPT !.program_bytes = 3], [Mine EXCEPT !.arguments = 3],
           [Mine EXCEPT !.json = 3], [Mine EXCEPT !.project_root = <<"..">>],
           [Mine EXCEPT !.project_root = <<"out">>],
           [Mine EXCEPT !.project_root = <<"gone">>], [Mine EXCEPT !.timeout = 0],
           [Mine EXCEPT !.extensions = << >>],
           [Mine EXCEPT !.extensions = <<Word("x"), Word("x")>>],
           [Mine EXCEPT !.extensions = <<[Word("x") EXCEPT !.bytes = 3]>>],
           [Mine EXCEPT !.extensions = <<Word("go")>>]}}
  \cup {Config(<<Mine, [Mine EXCEPT !.id = Word("too")]>>), Config(<<Mine, Mine>>)}

ById(id) == [by |-> "id", id |-> id]
ByProgram(program, language, arguments) ==
  [by |-> "program", program |-> program, program_bytes |-> 1,
   language |-> Word(language), arguments |-> arguments]
Automatic == [by |-> "automatic"]
Selections ==
  {Automatic, ById(Word("mine")), ById(Word("rust")), ById(Word("gone")),
   ById([Word("mine") EXCEPT !.permitted = FALSE]), ByProgram(<<"w", "tool">>, "l", 0),
   ByProgram(<< >>, "l", 0), ByProgram(<<"x">>, "", 0), ByProgram(<<"x">>, "l", 3)}

-----------------------------------------------------------------------------
(* Requests.                                                               *)

Query(by, mode, extent, kind) ==
  [by |-> by, name |-> 1, offset |-> 0, line |-> 1, column |-> 1, mode |-> mode,
   extent |-> extent, kind |-> kind]
Source(text) == [state |-> "read", utf8 |-> TRUE, text |-> text]
Base ==
  [command |-> "select", kinds_known |-> TRUE, kinds |-> {}, source |-> Source(<<97>>),
   query |-> Query("name", "unique", "symbol", 0), extension |-> Word("rs"),
   config |-> NoConfig, world |-> World, search |-> OnPath(<<"link", "bin">>),
   selection |-> Automatic]

\* Every short text, with no server to ask.
PositionRequests ==
  {[Base EXCEPT !.source = Source(text), !.extension = Word("txt")] :
     text \in Texts \cup {[k \in 1 .. MaxScanned + 1 |-> 97]}}

Samples == {<<97, 32>> \o Wide \o <<CR, LF, 32, 97, 97, 32>>,
            <<195, 169, LF, 32, 97, 32, LF, CR>>,
            <<97, CR, 97, 97, LF>>}
\* A line on which a few symbols exhaust the work limit.
LongLine == [k \in 1 .. 12 |-> 97]
Positions ==
  {[Query("byte", mode, "declaration_lines", 0) EXCEPT !.offset = o] :
     mode \in {"unique", "all"}, o \in {0, 3, 9, 11, 12}}
  \cup {[Query("line", "unique", "symbol", 12) EXCEPT !.line = p[1], !.column = p[2]] :
          p \in {<<1, 1>>, <<2, 3>>, <<2, 9>>, <<9, 1>>, <<1, 0>>}}
Names == {Query("name", mode, extent, 12) :
            mode \in {"unique", "all"}, extent \in {"symbol", "declaration_lines"}}
SelectionRequests ==
  {[Base EXCEPT !.source = Source(text), !.query = query] :
     text \in Samples \cup {LongLine}, query \in Positions \cup Names}
  \cup {[Base EXCEPT !.command = "outline", !.source = Source(text), !.kinds = kinds] :
          text \in Samples \cup {<<97>>, LongLine}, kinds \in {{}, {5}, {12}}}

ServerRequests ==
  {[Base EXCEPT !.source = Source(<< >>), !.config = config, !.selection = selection,
                !.search = OnPath(search)] :
     config \in Configs, selection \in Selections,
     search \in {<<"link", "bin">>, <<"link">>, << >>}}
  \cup {[Base EXCEPT !.extension = Word(x)] : x \in {"", "zz", "tsx"}}

FailingRequests ==
  {[Base EXCEPT !.command = c, !.source.state = state] : c \in {"select", "outline"},
     state \in {"ResourceLimitExceeded", "PathNotFound", "Io"}}
  \cup {[Base EXCEPT !.command = c, !.kinds_known = FALSE] : c \in {"select", "outline"}}
  \cup {[Base EXCEPT !.source.utf8 = FALSE]}
  \cup {[Base EXCEPT !.query.name = name] : name \in {0, 3}}

MCRequests == PositionRequests \cup SelectionRequests \cup ServerRequests
              \cup FailingRequests

MCSessionErrors ==
  {"DocumentSymbolsUnavailable", "DocumentSyncUnavailable", "Timeout", "RequestFailed",
   "ResourceLimit", "Spawn", "Exited", "Protocol"}
=============================================================================
