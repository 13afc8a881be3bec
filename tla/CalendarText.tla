----------------------------- MODULE CalendarText -----------------------------
(***************************************************************************)
(* How school.js is read (parse, src/src/api/xmu_service/calendar.rs): a   *)
(* scanner of JavaScript literals, and what is taken out of the objects it *)
(* finds.                                                                  *)
(*                                                                         *)
(* The file is a sequence of tokens: ".push(", brackets and marks, words   *)
(* of keys, numbers, strings with their quotes, and comments, which begin  *)
(* with "//" and end with "nl".  A string is its token, or "half" when its *)
(* quote does not close; it is a date, or no date.  Academic years and     *)
(* holidays are sets, which the code sorts.                                *)
(***************************************************************************)
EXTENDS Naturals, Sequences, SequencesExt

CONSTANTS
    DateStrings,    \* strings that are dates
    Numbers,    \* names of years
    Files,      \* what the school may have written: sequences of blocks
    Missing     \* no such part

VARIABLES
    file,       \* the blocks that were written, with a style and a cut
    text,       \* what arrived of them
    pos,        \* Scanner: the next token
    stack,      \* the objects and arrays that are open
    at,         \* what is read next
    years, holidays

vars == <<file, text, pos, stack, at, years, holidays>>

-----------------------------------------------------------------------------
\* What is written: a block for a year, with or without trailing commas and
\* comments, and keys that nobody asks for.
Join(items, dirty) ==
    FlattenSeq([i \in DOMAIN items |->
        items[i] \o (IF i < Len(items) \/ dirty THEN <<",">> ELSE <<>>)
                 \o (IF dirty THEN <<"//", ",", "nl">> ELSE <<>>)])
Object(items, dirty) == <<"{">> \o Join(items, dirty) \o <<"}">>
Array(items, dirty) == <<"[">> \o Join(items, dirty) \o <<"]">>
SpanItems(span) == <<<<"start", ":", span[1]>>, <<"end", ":", span[2]>>>>
HolidayText(h, dirty) ==
    Object(SpanItems(h.span) \o
           (IF h.makeups = <<>> THEN <<>>
            ELSE <<<<"makeups", ":">> \o Array([i \in DOMAIN h.makeups |-> <<h.makeups[i]>>], dirty)>>), dirty)
BlockText(b, dirty) ==
    <<".push(">> \o Object(
        <<<<"name", ":", b.name>>>>
        \o (IF dirty THEN <<<<"start", ":", "no date">>, <<"unknown", ":", "[", "]">>>> ELSE <<>>)
        \o (IF b.first = Missing THEN <<>>
            ELSE <<<<"first", ":">> \o Object(SpanItems(b.first), dirty)>>)
        \o <<<<"holidays", ":">> \o Object([i \in DOMAIN b.holidays |->
              <<"festival", ":">> \o HolidayText(b.holidays[i], dirty)], dirty)>>, dirty)
    \o <<");">>
\* A block may be commented out, in one line or in several.
Commented(b, dirty) ==
    CASE b.out = "no" -> BlockText(b, dirty)
      [] b.out = "line" -> <<"//">> \o BlockText(b, FALSE) \o <<"nl">>
      [] b.out = "lines" -> <<"//", ".push(", "{", "nl", "//">> \o Tail(Tail(BlockText(b, FALSE))) \o <<"nl">>
FileText(blocks, dirty) == FlattenSeq([i \in DOMAIN blocks |-> Commented(blocks[i], dirty)])
\* A file may break off anywhere, in a string too.
Arrived(whole, cut) ==
    LET part == SubSeq(whole, 1, cut)
    IN  {part} \cup IF part # <<>> /\ Last(part) \in DateStrings THEN {Front(part) \o <<"half">>} ELSE {}

-----------------------------------------------------------------------------
Init ==
    /\ \E blocks \in Files, dirty \in BOOLEAN :
          LET whole == FileText(blocks, dirty)
          IN  \E cut \in 0..Len(whole) :
                /\ file = [blocks |-> blocks, dirty |-> dirty, cut |-> cut]
                /\ text \in Arrived(whole, cut)
    /\ pos = 1 /\ stack = <<>> /\ at = "push"
    /\ years = {} /\ holidays = {}

Peek == IF pos <= Len(text) THEN text[pos] ELSE "end of file"
IsString(token) == token \in DateStrings \cup {"no date"}
IsNumber(token) == token \in Numbers
IsKey(token) == token \in {"name", "first", "holidays", "festival", "start", "end", "makeups", "unknown"}
Trivia == at # "push" /\ Peek \in {"//", "nl"}

Go(next, steps) == at' = next /\ pos' = pos + steps
Stay == UNCHANGED <<file, text>>
Bail == at' = "failed" /\ UNCHANGED <<pos, stack, years, holidays>> /\ Stay

\* skip_trivia: a comment ends with its line, or with the file.
SkipTrivia ==
    /\ at \notin {"done", "failed"} /\ Trivia
    /\ LET ends == {p \in pos..Len(text) : text[p] = "nl"}
       IN  pos' = IF ends = {} THEN Len(text) + 1 ELSE (CHOOSE p \in ends : \A q \in ends : p <= q) + 1
    /\ UNCHANGED <<stack, at, years, holidays>> /\ Stay

\* parse: the next ".push(", wherever it is; a file without blocks fails.
FindPush ==
    /\ at = "push"
    /\ LET found == {p \in pos..Len(text) : text[p] = ".push("}
       IN  IF found # {}
           THEN at' = "open" /\ pos' = (CHOOSE p \in found : \A q \in found : p <= q) + 1
           ELSE at' = (IF years = {} THEN "failed" ELSE "done") /\ UNCHANGED pos
    /\ UNCHANGED <<stack, years, holidays>> /\ Stay

Open(kind) == [kind |-> kind, items |-> <<>>, key |-> ""]
Top == Last(stack)
Push(kind) == stack' = Append(stack, Open(kind))

\* read_object as parse calls it.
Expect ==
    /\ at = "open" /\ ~Trivia
    /\ IF Peek = "{" THEN Push("obj") /\ Go("item", 1) /\ UNCHANGED <<years, holidays>> /\ Stay ELSE Bail

\* read_key: a bare word or a string, and its colon.
ReadKey ==
    /\ at = "item" /\ ~Trivia /\ Top.kind = "obj" /\ Peek # "}"
    /\ IF IsKey(Peek) \/ IsString(Peek) \/ IsNumber(Peek)
       THEN /\ stack' = [stack EXCEPT ![Len(stack)].key = Peek]
            /\ Go("colon", 1) /\ UNCHANGED <<years, holidays>> /\ Stay
       ELSE Bail
ReadColon ==
    /\ at = "colon" /\ ~Trivia
    /\ IF Peek = ":" THEN Go("value", 1) /\ UNCHANGED <<stack, years, holidays>> /\ Stay ELSE Bail

\* A value that was read goes to what is open around it.
Given(frames, value) ==
    [frames EXCEPT ![Len(frames)].items = Append(@,
        IF Last(frames).kind = "arr" THEN value ELSE [key |-> Last(frames).key, value |-> value])]

\* read_value: an object, an array, a string or a number, and nothing else.
ReadValue ==
    /\ ~Trivia
    /\ at = "value" \/ (at = "item" /\ Top.kind = "arr" /\ Peek # "]")
    /\ CASE Peek = "{" -> Push("obj") /\ Go("item", 1)
         [] Peek = "[" -> Push("arr") /\ Go("item", 1)
         [] IsString(Peek) -> stack' = Given(stack, [is |-> "str", v |-> Peek]) /\ Go("comma", 1)
         [] IsNumber(Peek) -> stack' = Given(stack, [is |-> "int", v |-> Peek]) /\ Go("comma", 1)
         [] OTHER -> at' = "failed" /\ UNCHANGED <<pos, stack>>
    /\ UNCHANGED <<years, holidays>> /\ Stay

Closer == IF Top.kind = "arr" THEN "]" ELSE "}"

\* Faulty variant of ReadComma; no specification uses it: a block that breaks off
\* is passed over.
ReadComma_PassesOver ==
    /\ at = "comma" /\ ~Trivia
    /\ CASE Peek = "," -> Go("item", 1) /\ UNCHANGED <<stack, years, holidays>> /\ Stay
         [] Peek = Closer -> Go("item", 0) /\ UNCHANGED <<stack, years, holidays>> /\ Stay
         [] OTHER -> at' = "push" /\ stack' = <<>> /\ UNCHANGED <<pos, years, holidays>> /\ Stay

\* What follows an entry or an element: a comma or the end.
ReadComma ==
    /\ at = "comma" /\ ~Trivia
    /\ CASE Peek = "," -> Go("item", 1) /\ UNCHANGED <<stack, years, holidays>> /\ Stay
         [] Peek = Closer -> Go("item", 0) /\ UNCHANGED <<stack, years, holidays>> /\ Stay
         [] OTHER -> Bail

-----------------------------------------------------------------------------
\* What is taken out of an object: of two entries with one key the first counts
\* in a span and a holiday, the last in a year.
Find(kv, want) ==
    LET i == SelectInSeq(kv, LAMBDA entry : entry.key = want)
    IN  IF i = 0 THEN Missing ELSE kv[i].value
FindLast(kv, want) == Find(Reverse(kv), want)

\* parse_date and span_from.
IsDate(value) == value # Missing /\ value.is = "str" /\ value.v \in DateStrings
IsSpan(value) == value.is = "obj" /\ IsDate(Find(value.v, "start")) /\ IsDate(Find(value.v, "end"))
SpanFrom(kv) == <<Find(kv, "start").v, Find(kv, "end").v>>

\* holiday_from: what is worked in exchange may be missing.
IsHoliday(value) ==
    /\ IsSpan(value)
    /\ LET makeups == Find(value.v, "makeups")
       IN  makeups = Missing \/ (makeups.is = "arr" /\ \A i \in DOMAIN makeups.v : IsDate(makeups.v[i]))
HolidayFrom(kv) ==
    LET makeups == Find(kv, "makeups")
    IN  [span |-> SpanFrom(kv),
         makeups |-> IF makeups = Missing THEN {} ELSE {makeups.v[i].v : i \in DOMAIN makeups.v}]

\* term_from.
TermFrom(value) == IF value = Missing THEN Missing ELSE SpanFrom(value.v)

\* year_from: keys it does not know are passed over, and so are the dates of the
\* block itself; a year needs its name, and what it knows must be well-formed.
IsPart(entry) ==
    CASE entry.key = "name" -> entry.value.is = "int"
      [] entry.key = "first" -> IsSpan(entry.value)
      [] entry.key = "holidays" ->
            entry.value.is = "obj" /\ \A i \in DOMAIN entry.value.v : IsHoliday(entry.value.v[i].value)
      [] OTHER -> TRUE
IsYear(kv) == Find(kv, "name") # Missing /\ \A i \in DOMAIN kv : IsPart(kv[i])
YearFrom(kv) == [name |-> FindLast(kv, "name").v, first |-> TermFrom(FindLast(kv, "first"))]
HolidaysFrom(kv) ==
    UNION {{HolidayFrom(kv[i].value.v[j].value.v) : j \in DOMAIN kv[i].value.v} :
              i \in {k \in DOMAIN kv : kv[k].key = "holidays"}}

\* The end of an object or an array; that of the outermost is a year, and one
\* year that is none fails the file.
Close ==
    /\ at = "item" /\ ~Trivia /\ Peek = Closer
    /\ IF Len(stack) > 1
       THEN /\ stack' = Given(Front(stack), [is |-> Top.kind, v |-> Top.items])
            /\ Go("comma", 1) /\ UNCHANGED <<years, holidays>>
       ELSE IF IsYear(Top.items)
       THEN /\ years' = years \cup {YearFrom(Top.items)}
            /\ holidays' = holidays \cup HolidaysFrom(Top.items)
            /\ stack' = <<>> /\ Go("push", 1)
       ELSE at' = "failed" /\ UNCHANGED <<pos, stack, years, holidays>>
    /\ Stay

Next == SkipTrivia \/ FindPush \/ Expect \/ ReadKey \/ ReadColon \/ ReadValue \/ ReadComma \/ Close

Spec == Init /\ [][Next]_vars

-----------------------------------------------------------------------------
TypeOK ==
    /\ pos \in 1..(Len(text) + 1)
    /\ at \in {"push", "open", "item", "colon", "value", "comma", "done", "failed"}
    /\ \A i \in DOMAIN stack : stack[i].kind \in {"obj", "arr"}

\* The blocks that have begun and those that are whole, one in a line of its own
\* with "//" before it being as good as any, for the search sees no comments;
\* one over several lines never ends.
Before(i) == Len(FileText(SubSeq(file.blocks, 1, i - 1), file.dirty))
Begun == {i \in DOMAIN file.blocks : Before(i) + (IF file.blocks[i].out = "no" THEN 1 ELSE 2) <= file.cut}
WholeBlocks ==
    {i \in DOMAIN file.blocks : /\ file.blocks[i].out # "lines"
                                /\ Before(i + 1) - (IF file.blocks[i].out = "no" THEN 1 ELSE 2) <= file.cut}

(* A file that was cut off within a block, anywhere, installs nothing, and *)
(* any other gives just what was written, with comments, trailing commas   *)
(* and unknown keys or without: never half a calendar (calendar.rs:760,    *)
(* "any broken block fails the whole").                                    *)
ReadAsWritten ==
    /\ at = "done" =>
        /\ Begun = WholeBlocks
        /\ years = {[name |-> file.blocks[i].name, first |-> file.blocks[i].first] : i \in WholeBlocks}
        /\ holidays = UNION {{[span |-> h.span, makeups |-> ToSet(h.makeups)] :
                                h \in ToSet(file.blocks[i].holidays)} : i \in WholeBlocks}
    /\ at = "failed" => Begun # WholeBlocks \/ Begun = {}
=============================================================================
