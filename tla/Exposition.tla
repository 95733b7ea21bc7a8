------------------------------ MODULE Exposition ------------------------------
(***************************************************************************)
(* The text exposition: how exporters write label values, and the parser   *)
(* of the console that reads them back.                                    *)
(*                                                                         *)
(* A text is a sequence of tokens.  What the grammar looks at is a         *)
(* character; a name, a number or a word is one token, so that a number is *)
(* carried in its printed form, which prints and parses without loss.      *)
(***************************************************************************)
EXTENDS Naturals, SequencesExt

CONSTANTS
    Numerals,       \* the tokens that parse as a number
    NoSample        \* where there is none: a series, a label

QUOTE == "\""
BACKSLASH == "\\"
NEWLINE == "\n"
SPACE == " "
Punctuation == {QUOTE, BACKSLASH, NEWLINE, SPACE, "{", "}", "=", ",", "#"}

\* Read from left to right.
Scan(Step(_, _), base, text) ==
    LET read[i \in 0..Len(text)] == IF i = 0 THEN base ELSE Step(read[i - 1], text[i])
    IN  read[Len(text)]

-----------------------------------------------------------------------------
(* Writing *)

\* Mutation: quotes are escaped, backslashes are not.
EscapeQuotes(value) ==
    FlattenSeq([i \in DOMAIN value |->
        CASE value[i] = QUOTE   -> <<BACKSLASH, QUOTE>>
          [] value[i] = NEWLINE -> <<BACKSLASH, "n">>
          [] OTHER              -> <<value[i]>>])

escape(value) ==
    FlattenSeq([i \in DOMAIN value |->
        CASE value[i] \in {QUOTE, BACKSLASH} -> <<BACKSLASH, value[i]>>
          [] value[i] = NEWLINE              -> <<BACKSLASH, "n">>
          [] OTHER                           -> <<value[i]>>])

\* HELP and TYPE, then the samples; nothing at all without a sample.
family(name, lines) ==
    IF lines = <<>> THEN <<>>
    ELSE <<"#", SPACE, "HELP", SPACE, name, NEWLINE, "#", SPACE, "TYPE", SPACE, name, NEWLINE>>
            \o FlattenSeq([i \in DOMAIN lines |-> lines[i] \o <<NEWLINE>>])

-----------------------------------------------------------------------------
(* Reading *)

\* What lies between the ends of lines, each line by the place where it ends;
\* the last one may lack its NEWLINE.
Lines(text) ==
    LET ends  == {i \in DOMAIN text : text[i] = NEWLINE}
                    \cup (IF text # <<>> /\ Last(text) # NEWLINE THEN {Len(text) + 1} ELSE {})
        Before(e) == {i \in ends : i < e}
    IN  [e \in ends |-> SubSeq(text, (IF Before(e) = {} THEN 0 ELSE Max(Before(e))) + 1, e - 1)]

\* One token on the way to the end of the labels: the first closing brace
\* outside quotes, where index stays.
BraceStep(at, token) ==
    IF at.closed THEN at
    ELSE IF ~ at.quoted /\ token = "}" THEN [at EXCEPT !.closed = TRUE]
    ELSE [index |-> at.index + 1, closed |-> FALSE,
          quoted |-> IF ~ at.skip /\ token = QUOTE THEN ~ at.quoted ELSE at.quoted,
          skip |-> at.quoted /\ ~ at.skip /\ token = BACKSLASH]

\* Where the labels end, or 0.
close_brace(line, open) ==
    LET start == [index |-> open + 1, quoted |-> FALSE, skip |-> FALSE, closed |-> FALSE]
        read  == Scan(BraceStep, start, SubSeq(line, open + 1, Len(line)))
    IN  IF read.closed THEN read.index ELSE 0

\* One token of the label set; "bad" gives up the whole line.
LabelStep(read, token) ==
    LET Go(at) == [read EXCEPT !.at = at]
        Push(t) == [read EXCEPT !.at = "value", !.value = Append(@, t)]
    IN  CASE read.at = "value" /\ token = QUOTE ->
                 [Go("after") EXCEPT !.labels = Append(@, <<read.key, read.value>>)]
          [] read.at = "value" /\ token = BACKSLASH -> Go("escape")
          [] read.at = "value" /\ token \notin {QUOTE, BACKSLASH} -> Push(token)
          [] read.at = "escape" /\ token = "n" -> Push(NEWLINE)
          [] read.at = "escape" /\ token \in {QUOTE, BACKSLASH} -> Push(token)
          [] read.at \in {"key", "equals", "quote", "after"} /\ token = SPACE -> read
          [] read.at = "key" /\ token \notin Punctuation ->
                 [Go("equals") EXCEPT !.key = token, !.value = <<>>]
          [] read.at = "equals" /\ token = "=" -> Go("quote")
          [] read.at = "quote" /\ token = QUOTE -> Go("value")
          [] read.at = "after" /\ token = "," -> Go("key")
          [] OTHER -> Go("bad")

parse_labels(text) ==
    Scan(LabelStep, [at |-> "key", key |-> SPACE, value |-> <<>>, labels |-> <<>>], text)

\* A line that cannot be read, a comment for one, is no sample.  Blanks before
\* the name, behind it and behind the number are trimmed.
parse_line(line) ==
    LET first  == SelectInSeq(line, LAMBDA t : t # SPACE)
        open   == SelectInSeq(line, LAMBDA t : t = "{")
        close  == IF open = 0 THEN 0 ELSE close_brace(line, open)
        labels == parse_labels(SubSeq(line, open + 1, close - 1))
        rest   == SubSeq(line, (IF open = 0 THEN first ELSE close) + 1, Len(line))
        word   == SelectInSeq(rest, LAMBDA t : t # SPACE)
    IN  IF /\ first # 0 /\ line[first] \notin Punctuation
           /\ word # 0 /\ rest[word] \in Numerals
           /\ open = 0 => Head(rest) = SPACE
           /\ open # 0 => /\ \A i \in (first + 1)..(open - 1) : line[i] = SPACE
                          /\ close # 0 /\ labels.at \in {"key", "after"}
        THEN [metric |-> line[first], labels |-> IF open = 0 THEN <<>> ELSE labels.labels,
              value |-> rest[word]]
        ELSE NoSample

\* The samples, in the places of their lines.
parse(text) ==
    LET lines == Lines(text)
    IN  [e \in {l \in DOMAIN lines : parse_line(lines[l]) # NoSample} |-> parse_line(lines[e])]

\* A sample's label of this name: the first of them.
label(sample, key) ==
    LET i == SelectInSeq(sample.labels, LAMBDA l : l[1] = key)
    IN  IF i = 0 THEN NoSample ELSE sample.labels[i][2]

\* The first sample of a metric, and the first with this label.
First(samples, places) == IF places = {} THEN NoSample ELSE samples[Min(places)].value

value(samples, metric) ==
    First(samples, {e \in DOMAIN samples : samples[e].metric = metric})

labeled_value(samples, metric, key, wanted) ==
    First(samples, {e \in DOMAIN samples : /\ samples[e].metric = metric
                                          /\ label(samples[e], key) = wanted})
=============================================================================
