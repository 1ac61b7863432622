------------------------------ MODULE PageText -------------------------------
(***************************************************************************)
(* The conversions of ui/static/index.js that something else has to        *)
(* understand: the CSV export, the paths of the requests and the progress  *)
(* of a run.  A text is a sequence of characters, as far as the            *)
(* conversions tell them apart: "quote", "newline" (line feed), "cr"       *)
(* (carriage return), "nbsp" (no-break space), "bom" (U+FEFF) and "nel"    *)
(* (U+0085) are characters.                                                *)
(***************************************************************************)
EXTENDS Integers, Sequences, FiniteSets, SequencesExt

CONSTANTS Absent,         \* undefined, null, NaN: what Number makes no number of
          Char            \* the characters

ASSUME AbsentAssumption == Absent \notin Int

ASSUME CharAssumption ==
  {"quote", ",", "newline", "cr", "/", ";", "tab", " ", "nbsp", "bom", "nel"} \subseteq Char

AsNumber(value, fallback) == IF value = Absent THEN fallback ELSE value

Within(value, low, high) ==
  IF value < low THEN low ELSE IF value > high THEN high ELSE value

-----------------------------------------------------------------------------
(* CSV. *)

NeedsQuotes(text) == ToSet(text) \intersect {"quote", ",", "newline"} # {}

(* Mutant: a quote inside a text stays single. *)
EscapeCsvLoosely(text) ==
  IF NeedsQuotes(text) THEN <<"quote">> \o text \o <<"quote">> ELSE text

Quote(text, char) == text \o (IF char = "quote" THEN <<char, char>> ELSE <<char>>)

EscapeCsv(text) ==
  IF NeedsQuotes(text) THEN FoldLeft(Quote, <<"quote">>, text) \o <<"quote">> ELSE text

(* The end of buildCsv: the cells of a row, and the rows. *)
AddCell(line, cell) == line \o <<",">> \o EscapeCsv(cell)
CsvLine(row) == FoldLeft(AddCell, EscapeCsv(Head(row)), Tail(row))
AddLine(text, row) == text \o <<"newline">> \o CsvLine(row)
CsvText(rows) == FoldLeft(AddLine, CsvLine(Head(rows)), Tail(rows))

(* A carriage return in a cell that is not put in quotes. *)
BareReturn(text) == "cr" \in ToSet(text) /\ ~NeedsQuotes(text)

(* A program that reads CSV (RFC 4180), one character at a time.  Rows end *)
(* with CR LF, and as most programs do, it takes a single CR or LF as well.*)
(* `quoted` says whether it is inside quotes, `pending` whether the last   *)
(* character there was a quote (the closing one, unless another follows),  *)
(* `ended` whether the last character was the CR that ended a row.         *)
CsvStart == [rows |-> <<>>, row |-> <<>>, cell |-> <<>>, quoted |-> FALSE,
             pending |-> FALSE, ended |-> FALSE]

CsvRead(s, char) ==
  LET Put(c) == [s EXCEPT !.cell = Append(@, c), !.pending = FALSE, !.ended = FALSE]
      outside == ~s.quoted \/ s.pending
      row == Append(s.row, s.cell)
  IN CASE char = "quote" /\ ~s.quoted -> [s EXCEPT !.quoted = TRUE, !.ended = FALSE]
       [] char = "quote" /\ s.quoted ->
            IF s.pending THEN Put("quote") ELSE [s EXCEPT !.pending = TRUE]
       [] char = "," /\ outside -> [CsvStart EXCEPT !.rows = s.rows, !.row = row]
       [] char = "newline" /\ s.ended -> [s EXCEPT !.ended = FALSE]
       [] char \in {"newline", "cr"} /\ outside /\ ~(char = "newline" /\ s.ended) ->
            [CsvStart EXCEPT !.rows = Append(s.rows, row), !.ended = (char = "cr")]
       [] OTHER -> Put(char)

(* The line break of the last row may be missing, and is in the export. *)
CsvParsed(text) ==
  LET end == FoldLeft(CsvRead, CsvStart, text)
  IN Append(end.rows, Append(end.row, end.cell))

-----------------------------------------------------------------------------
(* White space, as trim of index.js and TrimSpace of ui/ui.go take it. *)

PageSpace == {"newline", "tab", " ", "cr", "nbsp", "bom"}
ServerSpace == {"newline", "tab", " ", "cr", "nbsp", "nel"}

(* Nothing is left of such a text. *)
Blank(text, space) == ToSet(text) \subseteq space

-----------------------------------------------------------------------------
(* Paths. *)

(* What is left of a text without certain characters at its ends. *)
TrimLeft(text, chars) ==
  LET first == Min({i \in DOMAIN text : text[i] \notin chars} \union {Len(text) + 1})
  IN SubSeq(text, first, Len(text))
TrimRight(text, chars) == Reverse(TrimLeft(Reverse(text), chars))
Trim(text, chars) == TrimRight(TrimLeft(text, chars), chars)

(* The base path that main makes of a new uuid. *)
RawBasePath(uuid) == Append(<<"/">> \o uuid, "/")

(* normalizeBasePath of ui/ui.go, and the base path in index.html. *)
ServerBasePath(raw) ==
  LET path == <<"/">> \o Trim(raw, {"/"})
  IN IF path = <<"/">> THEN path ELSE Append(path, "/")

(* Mutant: the slash at the end is dropped. *)
BasePathWithoutSlash(path) ==
  LET value == Trim(path, PageSpace)
  IN IF value = <<>> THEN <<"/">>
     ELSE <<"/">> \o Trim(value, {"/"})

(* normalizeBasePath of index.js. *)
NormalizeBasePath(path) ==
  LET value == Trim(path, PageSpace)
      rooted == IF IsPrefix(<<"/">>, value) THEN value ELSE <<"/">> \o value
  IN IF value = <<>> THEN <<"/">>
     ELSE IF IsSuffix(<<"/">>, rooted) THEN rooted ELSE Append(rooted, "/")

(* loadRequestToken: the path of the page. *)
BasePath(raw) == NormalizeBasePath(ServerBasePath(raw))

ApiPath(raw, path) == BasePath(raw) \o TrimLeft(path, {"/"})

(* What the mux of ui.go sees of a request: main registers it for the base  *)
(* path as it is and strips this path without its last slash.               *)
MuxPath(raw, path) ==
  LET prefix == IF IsSuffix(<<"/">>, raw) THEN Front(raw) ELSE raw
  IN IF IsPrefix(raw, path) THEN SubSeq(path, Len(prefix) + 1, Len(path)) ELSE <<>>

-----------------------------------------------------------------------------
(* The list of resolvers in the form: what is between the separators.  The *)
(* server separates at a carriage return too.                              *)

PageSeparators == {",", ";", "newline", "tab", " "}
ServerSeparators == PageSeparators \union {"cr"}

ReadPiece(s, char, separators) ==
  IF char \notin separators THEN [s EXCEPT !.piece = Append(@, char)]
  ELSE IF s.piece = <<>> THEN s
  ELSE [pieces |-> Append(s.pieces, s.piece), piece |-> <<>>]

Pieces(text, separators) ==
  LET Read(s, char) == ReadPiece(s, char, separators)
      end == FoldLeft(Read, [pieces |-> <<>>, piece |-> <<>>], text)
  IN IF end.piece = <<>> THEN end.pieces ELSE Append(end.pieces, end.piece)

(* updateNameserverCount *)
EntryCount(text) ==
  LET pieces == Pieces(text, PageSeparators)
  IN Cardinality({i \in DOMAIN pieces : ~Blank(pieces[i], PageSpace)})

(* splitNameserverTokens of ui/ui.go. *)
NameserverTokens(text) ==
  IF Blank(text, ServerSpace) THEN <<>> ELSE Pieces(text, ServerSeparators)

-----------------------------------------------------------------------------
(* Progress.  `state` is the answer to a poll: [status, completed, total,  *)
(* percent, server, phase, elapsed, eta], percent in hundredths.           *)

(* Mutant: the percentage of the step before. *)
LatePercent(completed, total) ==
  (20000 * (IF completed = 0 THEN 0 ELSE completed - 1) + total) \div (2 * total)

(* advanceProgress: round2 of a percentage, in hundredths of a percent. *)
Percent(completed, total) == (20000 * completed + total) \div (2 * total)

(* <<minutes, seconds>>, the minutes only if there are any. *)
FormatDuration(seconds) ==
  LET total == Within(AsNumber(seconds, 0), 0, 2147483647)
  IN IF total >= 60 THEN <<total \div 60, total % 60>> ELSE <<total>>

Times(state) ==
  [elapsed |-> IF AsNumber(state.elapsed, 0) > 0 THEN FormatDuration(state.elapsed) ELSE <<>>,
   eta |-> IF AsNumber(state.eta, 0) > 0 THEN FormatDuration(state.eta) ELSE <<>>]

(* The log of a run that goes on; Absent names are left out. *)
BuildProgressText(state) ==
  [status |-> state.status, progress |-> <<AsNumber(state.completed, 0), AsNumber(state.total, 0)>>,
   server |-> state.server, phase |-> state.phase, times |-> Times(state)]

BuildProgressDetail(state) ==
  [queries |-> <<AsNumber(state.completed, 0), AsNumber(state.total, 0)>>,
   times |-> Times(state)]

(* The label over the bar (pollBenchmark). *)
ProgressLabel(state) ==
  CASE state.status = "running" ->
         <<IF state.phase = Absent THEN "benchmarking" ELSE state.phase, state.server>>
    [] state.status = "completed" -> <<"Completed">>
    [] state.status = "canceled" -> <<"Canceled">>
    [] state.status = "error" -> <<"Error">>
    [] OTHER -> <<"Idle">>

(* The width of the bar is in hundredths, the figure beside it is rounded. *)
SetProgress(percent, text, detail) ==
  LET normalized == Within(AsNumber(percent, 0), 0, 10000)
  IN [fill |-> normalized, percent |-> (normalized + 50) \div 100,
      text |-> text, detail |-> detail]

ShowProgress(state) ==
  SetProgress(state.percent, ProgressLabel(state), BuildProgressDetail(state))
=============================================================================
