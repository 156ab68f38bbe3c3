----------------------------- MODULE CommandPolicy -----------------------------
(***************************************************************************)
(* The rules a group of sessions has for the commands of MCP clients       *)
(* (mcp_command_policy.rs and its shell.rs): a command is split to the     *)
(* simple commands the shell of the server would run, or refused, and each *)
(* of them is compared with the rules.  A command is a sequence of         *)
(* characters; every class that the code or the shell tells apart has one  *)
(* member here, but for the control characters that are always refused:    *)
(* " " stands for the tabulator too, "nbsp" for the blanks of Unicode.     *)
(***************************************************************************)
EXTENDS Naturals, Sequences

CONSTANTS Lengths,           \* bound: how much is typed with the characters of a set
          Patterns, Values,  \* what the glob matcher is compared on
          Policies,          \* policies that the user edits
          MaxRules, MaxSegments  \* MAX_RULES_PER_LIST, MAX_COMMAND_SEGMENTS

VARIABLE command

Letter == {"a"}
Ascii == {" ", "\n", "\r"}
Foreign == {"\r", "nbsp"}
Blank == Ascii \cup Foreign
Arrows == {"<", ">"}
Nothing == ""
At(s, i) == IF i \in DOMAIN s THEN s[i] ELSE Nothing
From(s, i, t) == \A k \in DOMAIN t : At(s, i + k - 1) = t[k]
Last(s) == At(s, Len(s))

Trim(s) ==
  LET kept == {i \in DOMAIN s : s[i] \notin Blank}
  IN IF kept = {} THEN <<>>
     ELSE SubSeq(s, CHOOSE i \in kept : \A j \in kept : i <= j, CHOOSE i \in kept : \A j \in kept : j <= i)
-----------------------------------------------------------------------------
\* Parts of a segment.

Failed(error) == [error |-> error, at |-> 0]
End(i) == [error |-> Nothing, at |-> i]

\* What stands for a command of its own: $( and $((.
Expansion(s, i) ==
  IF From(s, i, <<"$", "(", "(">>) THEN "arithmeticExpansion"
  ELSE IF From(s, i, <<"$", "(">>) THEN "commandSubstitution" ELSE Nothing

\* consume_parameter_expansion: past the } of a ${, quotes and escapes skipped.
RECURSIVE Braces(_, _, _, _)
Braces(s, i, depth, quoted) ==
  CASE i > Len(s) -> Failed("malformedSyntax")
    [] i <= Len(s) /\ s[i] = "\\" ->
         IF i = Len(s) THEN Failed("malformedSyntax") ELSE Braces(s, i + 2, depth, quoted)
    [] i <= Len(s) /\ s[i] = "'" -> Braces(s, i + 1, depth, ~quoted)
    [] i <= Len(s) /\ s[i] \notin {"\\", "'"} /\ quoted -> Braces(s, i + 1, depth, quoted)
    [] OTHER ->
         IF Expansion(s, i) # Nothing THEN Failed(Expansion(s, i))
         ELSE IF s[i] = "backquote" THEN Failed("commandSubstitution")
         ELSE IF s[i] \in Arrows /\ At(s, i + 1) = "(" THEN Failed("processSubstitution")
         ELSE IF From(s, i, <<"$", "{">>) THEN Braces(s, i + 2, depth + 1, quoted)
         ELSE IF s[i] # "}" THEN Braces(s, i + 1, depth, quoted)
         ELSE IF depth = 1 THEN End(i + 1) ELSE Braces(s, i + 1, depth - 1, quoted)

Parameter(s, i) == Braces(s, i + 2, 1, FALSE)

\* redirection_target_start: where the target of a redirection begins.
RECURSIVE Target(_, _)
Target(s, i) ==
  IF At(s, i) \in {" ", "\r"} THEN Target(s, i + 1)
  ELSE IF At(s, i) \in Arrows \cup {Nothing, "&", "|", ";"} THEN Failed("malformedSyntax") ELSE End(i)

Quotes == [single |-> "'", double |-> "\"", ansi |-> "'"]

\* validate_redirections: every redirection outside of quotes has a target.
RECURSIVE Redirections(_, _, _)
Redirections(s, i, quote) ==
  LET On(next, q) == IF next.error # Nothing THEN next.error ELSE Redirections(s, next.at, q)
  IN CASE i > Len(s) -> Nothing
       [] i <= Len(s) /\ quote # "none" ->
            IF s[i] = "\\" /\ quote # "single"
            THEN IF i = Len(s) THEN "malformedSyntax" ELSE Redirections(s, i + 2, quote)
            ELSE Redirections(s, i + 1, IF s[i] = Quotes[quote] THEN "none" ELSE quote)
       [] i <= Len(s) /\ quote = "none" ->
            CASE s[i] = "\\" -> IF i = Len(s) THEN "malformedSyntax" ELSE Redirections(s, i + 2, quote)
              [] s[i] = "'" -> Redirections(s, i + 1, "single")
              [] s[i] = "\"" -> Redirections(s, i + 1, "double")
              [] From(s, i, <<"$", "'">>) -> Redirections(s, i + 2, "ansi")
              [] From(s, i, <<"$", "{">>) -> On(Parameter(s, i), quote)
              [] From(s, i, <<"&", ">">>) -> On(Target(s, IF At(s, i + 2) = ">" THEN i + 3 ELSE i + 2), quote)
              [] s[i] \in Arrows -> On(Target(s, IF At(s, i + 1) \in {s[i], ">", "&", "|"} THEN i + 2 ELSE i + 1), quote)
              [] OTHER -> Redirections(s, i + 1, quote)

\* looks_like_assignment: a name before the first = of the word.
Name(s) == s # <<>> /\ \A i \in DOMAIN s : s[i] \in Letter
Assignment(s) ==
  \E k \in DOMAIN s : s[k] = "=" /\ Name(SubSeq(s, 1, k - 1))

\* The words of a segment, without a thought for quotes, as pairs of positions.
Words(s) ==
  {w \in (DOMAIN s) \X (DOMAIN s) :
     /\ w[1] <= w[2] /\ \A i \in w[1] .. w[2] : s[i] \notin Ascii
     /\ At(s, w[1] - 1) \in Ascii \cup {Nothing} /\ At(s, w[2] + 1) \in Ascii \cup {Nothing}}

\* reject_compound_keyword: the first word that assigns nothing; ! is one of
\* the reserved words.
Compound(s) ==
  LET own == {w \in Words(s) : ~Assignment(SubSeq(s, w[1], w[2]))}
  IN \E w \in own : (\A o \in own : w[1] <= o[1]) /\ SubSeq(s, w[1], w[2]) = <<"!">>

\* looks_like_function_definition, at a ( that follows the text.
Function(text, s, i) ==
  /\ At(s, i + 1) = ")"
  /\ \E w \in Words(text) : (\A o \in Words(text) : o[1] <= w[1]) /\ Name(SubSeq(text, w[1], w[2]))
-----------------------------------------------------------------------------
\* The scan. Its state: the position, the text of the segment so far, the
\* segments, the quotes it is in, whether an operator still needs its operand,
\* whether a word may start, and the error that ended it.  `from' and `seen' are
\* not in the code: the places in the command of the text and of each segment.

Begin == [i |-> 1, text |-> <<>>, segments |-> <<>>, quote |-> "none",
          operand |-> FALSE, start |-> TRUE, error |-> Nothing, from |-> {}, seen |-> <<>>]

Stop(p, error) == [p EXCEPT !.error = error]

\* Changed: after a letter a word may start as after a blank.
TakeKeepsStart(s, p, n) ==
  [p EXCEPT !.text = @ \o SubSeq(s, p.i, p.i + n - 1), !.from = @ \cup (p.i .. p.i + n - 1), !.i = @ + n]

\* Take n characters of the command to the text.
Take(s, p, n) ==
  [p EXCEPT !.text = @ \o SubSeq(s, p.i, p.i + n - 1), !.from = @ \cup (p.i .. p.i + n - 1),
            !.i = @ + n, !.start = FALSE]

\* The text becomes a segment.
CutOff(p, segment) ==
  [p EXCEPT !.text = <<>>, !.segments = Append(@, segment), !.operand = FALSE,
            !.from = {}, !.seen = Append(@, p.from)]

\* Changed: a segment is split off without a look at what it is.
PushUnread(p) == CutOff(p, Trim(p.text))

\* push_segment.
Push(p) ==
  LET segment == Trim(p.text)
      bad == Redirections(segment, 1, "none")
  IN IF Compound(segment) THEN Stop(p, "compoundCommand")
     ELSE IF bad # Nothing THEN Stop(p, bad)
     ELSE IF Len(p.segments) >= MaxSegments THEN Stop(p, "segmentLimit")
     ELSE CutOff(p, segment)

\* consume_operator, of n characters.
Operator(p, kind, n) ==
  IF Trim(p.text) # <<>>
  THEN LET q == Push(p) IN [q EXCEPT !.operand = kind = "binary", !.i = @ + n, !.start = TRUE]
  ELSE IF kind = "newline" THEN [p EXCEPT !.i = @ + n, !.start = TRUE]
  ELSE Stop(p, "malformedSyntax")

\* Changed: the escaped character is lost.
EscapeLost(s, p) ==
  IF p.i = Len(s) THEN Stop(p, "malformedSyntax") ELSE [Take(s, p, 1) EXCEPT !.i = @ + 1]

\* push_escaped.
Escape(s, p) == IF p.i = Len(s) THEN Stop(p, "malformedSyntax") ELSE Take(s, p, 2)

Expand(s, p) ==
  LET end == Parameter(s, p.i)
  IN IF end.error # Nothing THEN Stop(p, end.error) ELSE Take(s, p, end.at - p.i)

\* is_redirection_ampersand.
Ampersand(s, p) == At(s, p.i + 1) = ">" \/ (At(s, p.i + 1) # "&" /\ Last(p.text) \in Arrows)

Opened(s, p, n, quote) == [Take(s, p, n) EXCEPT !.quote = quote]

Quoted(s, p) ==
  CASE p.quote # "single" /\ s[p.i] = "\\" -> Escape(s, p)
    [] p.quote = "double" /\ Expansion(s, p.i) # Nothing -> Stop(p, Expansion(s, p.i))
    [] p.quote = "double" /\ s[p.i] = "backquote" -> Stop(p, "commandSubstitution")
    [] p.quote = "double" /\ From(s, p.i, <<"$", "{">>) -> Expand(s, p)
    [] OTHER -> Opened(s, p, 1, IF s[p.i] = Quotes[p.quote] THEN "none" ELSE p.quote)

Plain(s, p) ==
  LET c == s[p.i]
      next == At(s, p.i + 1)
  IN CASE Expansion(s, p.i) # Nothing -> Stop(p, Expansion(s, p.i))
       [] Expansion(s, p.i) = Nothing /\ c \notin {" ", "#"} \cup Foreign ->
            CASE c = "\\" -> Escape(s, p)
              [] c = "$" /\ next = "'" -> Opened(s, p, 2, "ansi")
              [] c = "$" /\ next = "{" -> Expand(s, p)
              [] c = "'" -> Opened(s, p, 1, "single")
              [] c = "\"" -> Opened(s, p, 1, "double")
              [] c = "backquote" -> Stop(p, "commandSubstitution")
              [] c = "<" /\ next = "<" -> Stop(p, "hereDocument")
              [] c \in Arrows /\ next = "(" -> Stop(p, "processSubstitution")
              [] c = "(" /\ next = "(" -> Stop(p, "arithmeticExpansion")
              [] c = "(" /\ next # "(" -> Stop(p, IF Function(p.text, s, p.i) THEN "functionDefinition" ELSE "subshell")
              [] c = ")" -> Stop(p, "subshell")
              [] c \in {"{", "}"} -> Stop(p, "commandGroup")
              [] c = ";" -> IF next \in {";", "&"} THEN Stop(p, "compoundCommand") ELSE Operator(p, "terminator", 1)
              [] c = "&" -> IF Ampersand(s, p) THEN Take(s, p, 1)
                            ELSE IF next = "&" THEN Operator(p, "binary", 2) ELSE Operator(p, "terminator", 1)
              [] c = "|" -> IF Last(p.text) = ">" THEN Take(s, p, 1)
                            ELSE Operator(p, "binary", IF next \in {"|", "&"} THEN 2 ELSE 1)
              [] c = "\n" -> Operator(p, "newline", 1)
              [] OTHER -> Take(s, p, 1)
       [] c \in {" "} \cup Foreign -> [Take(s, p, 1) EXCEPT !.start = TRUE]
       \* A comment ends before the next line.
       [] c = "#" /\ p.start ->
            LET ends == {j \in p.i .. Len(s) : s[j] = "\n"} \cup {Len(s) + 1}
            IN [p EXCEPT !.i = CHOOSE j \in ends : \A k \in ends : j <= k]
       [] c = "#" /\ ~p.start -> Take(s, p, 1)

RECURSIVE Scan(_, _)
Scan(s, p) ==
  IF p.error # Nothing \/ p.i > Len(s) THEN p ELSE Scan(s, IF p.quote = "none" THEN Plain(s, p) ELSE Quoted(s, p))

\* split_simple_command_chain.
Finish(p) ==
  LET q == IF Trim(p.text) # <<>> THEN Push(p) ELSE p
  IN CASE p.error # Nothing -> p
       [] p.error = Nothing /\ p.quote # "none" -> Stop(p, "malformedSyntax")
       [] OTHER -> IF q.error = Nothing /\ (q.operand \/ q.segments = <<>>) THEN Stop(q, "malformedSyntax") ELSE q

Split(s) == Finish(Scan(s, Begin))
-----------------------------------------------------------------------------
\* The rules.

\* glob_tokens: a \ before a special character makes it one of its own.
RECURSIVE Tokens(_)
Tokens(pattern) ==
  IF pattern = <<>> THEN <<>>
  ELSE LET c == Head(pattern)
           escaped == c = "\\" /\ At(pattern, 2) \in {"*", "?", "\\"}
           token == CASE c = "*" -> [kind |-> "many"] [] c = "?" -> [kind |-> "one"]
                      [] OTHER -> [kind |-> "literal", is |-> IF escaped THEN pattern[2] ELSE c]
       IN <<token>> \o Tokens(SubSeq(pattern, IF escaped THEN 3 ELSE 2, Len(pattern)))

Fits(token, c) == token.kind = "one" \/ (token.kind = "literal" /\ token.is = c)

\* Changed: after a mismatch the last star takes no more than it had.
RECURSIVE MatchForward(_, _, _, _, _, _)
MatchForward(tokens, value, t, v, star, from) ==
  IF v > Len(value) THEN \A k \in t .. Len(tokens) : tokens[k].kind = "many"
  ELSE IF t <= Len(tokens) /\ Fits(tokens[t], value[v]) THEN MatchForward(tokens, value, t + 1, v + 1, star, from)
  ELSE IF t <= Len(tokens) /\ tokens[t].kind = "many" THEN MatchForward(tokens, value, t + 1, v, t, v)
  ELSE star # 0 /\ t = star + 1 /\ MatchForward(tokens, value, star + 1, v + 1, star, v + 1)

\* The loop of glob_matches: a mismatch returns to the last star only, which
\* takes one character more.
RECURSIVE Match(_, _, _, _, _, _)
Match(tokens, value, t, v, star, from) ==
  IF v > Len(value) THEN \A k \in t .. Len(tokens) : tokens[k].kind = "many"
  ELSE IF t <= Len(tokens) /\ Fits(tokens[t], value[v]) THEN Match(tokens, value, t + 1, v + 1, star, from)
  ELSE IF t <= Len(tokens) /\ tokens[t].kind = "many" THEN Match(tokens, value, t + 1, v, t, v)
  ELSE star # 0 /\ Match(tokens, value, star + 1, from + 1, star, from + 1)

Glob(pattern, value) == Match(Tokens(pattern), value, 1, 1, 0, 0)

\* normalize_rules: what a list is saved as, if it can be.
Rules(list) == [i \in DOMAIN list |-> [list[i] EXCEPT !.pattern = Trim(@)]]
Valid(list) ==
  /\ Len(list) <= MaxRules
  /\ \A i, j \in DOMAIN list : i # j => Rules(list)[i] # Rules(list)[j]
  /\ \A i \in DOMAIN list :
       LET p == Trim(list[i].pattern) IN p # <<>> /\ \A k \in DOMAIN p : p[k] \notin {"\n", "\r"}

Saved == {[p EXCEPT !.allow = Rules(@), !.exclude = Rules(@)] : p \in {q \in Policies : Valid(q.allow) /\ Valid(q.exclude)}}

Hit(list, segment) ==
  \E i \in DOMAIN list :
    IF list[i].type = "exact" THEN list[i].pattern = segment ELSE Glob(list[i].pattern, segment)

Fine(p, segment) == IF p.mode = "allow" THEN Hit(p.allow, segment) ELSE ~Hit(p.exclude, segment)

\* evaluate_command_policy, for a command that split_simple_command_chain has split.
Decision(p, split) ==
  IF ~p.enabled THEN "allowed"
  ELSE IF split.error # Nothing THEN "unsupported"
  ELSE IF \A i \in DOMAIN split.segments : Fine(p, split.segments[i]) THEN "allowed" ELSE "denied"
-----------------------------------------------------------------------------
\* An MCP client sends any command; what no longer text can make acceptable is
\* not made longer.
Init == command = <<>>

Type(c) == command' = Append(command, c)

Next ==
  LET open == {set \in DOMAIN Lengths :
                 Len(command) < Lengths[set] /\ \A i \in DOMAIN command : command[i] \in set}
  IN /\ open # {} /\ Scan(command, Begin).error \in {Nothing, "malformedSyntax"}
     /\ \E c \in UNION open : Type(c)
-----------------------------------------------------------------------------
\* For reference, how the shell of the server (bash) reads a command: as words and
\* operators, without regard to what the scan makes of it.

Control     == {<<"&", "&">>, <<"|", "|">>, <<"|", "&">>, <<"&">>, <<"|">>, <<";">>, <<"\n">>}
Redirection == {<<"<">>, <<">">>, <<">", ">">>, <<"<", ">">>, <<"<", "&">>, <<">", "&">>, <<">", "|">>,
                <<"&", ">">>, <<"&", ">", ">">>}
Nested      == {<<"(">>, <<")">>, <<"<", "<">>, <<"<", "(">>, <<">", "(">>}

Operators == Control \cup Redirection \cup Nested

\* The longest operator at i, <<>> when there is none.
OperatorAt(s, i) ==
  LET here == {o \in Operators : From(s, i, o)} \cup {<<>>}
  IN CHOOSE o \in here : \A other \in here : Len(other) <= Len(o)

Metacharacters == {" "} \cup {o[1] : o \in Operators}
Continuation   == <<"\\", "\n">>
Substitution(s, i) == s[i] = "backquote" \/ From(s, i, <<"$", "(">>)

Closing == [single |-> "'", double |-> "\"", ansi |-> "'", braces |-> "}", quotedBraces |-> "}"]

\* The quotes that open at i inside of others, if any.
Opens(s, i, in) ==
  CASE in \in {"double", "quotedBraces"} /\ From(s, i, <<"$", "{">>) -> <<2, "quotedBraces">>
    [] in \in {"word", "braces"} /\ From(s, i, <<"$", "{">>) -> <<2, "braces">>
    [] in \in {"word", "braces"} /\ From(s, i, <<"$", "'">>) -> <<2, "ansi">>
    [] in \in {"word", "braces"} /\ s[i] = "'" -> <<1, "single">>
    [] in \in {"word", "braces", "quotedBraces"} /\ s[i] = "\"" -> <<1, "double">>
    [] OTHER -> <<0, "none">>

\* Where the word or the quotes that i is in end; 0 if they run commands.
RECURSIVE Past(_, _, _)
Past(s, i, in) ==
  IF i > Len(s) THEN Len(s) + 1
  ELSE IF in = "word" /\ s[i] \in Metacharacters THEN i
  ELSE IF in # "word" /\ s[i] = Closing[in] THEN i + 1
  ELSE IF in = "single" THEN Past(s, i + 1, in)
  ELSE IF s[i] = "\\" THEN Past(s, i + 2, in)
  ELSE IF in = "ansi" THEN Past(s, i + 1, in)
  ELSE IF Substitution(s, i) THEN 0
  ELSE LET inner == Opens(s, i, in)
           end == IF inner[1] = 0 THEN i + 1 ELSE Past(s, i + inner[1], inner[2])
       IN IF end = 0 THEN 0 ELSE Past(s, end, in)

\* The words and operators from i on, with their places.
RECURSIVE Reading(_, _)
Reading(s, i) ==
  LET operator == OperatorAt(s, i)
      end      == IF operator = <<>> THEN Past(s, i, "word") ELSE i + Len(operator)
      line     == {j \in i .. Len(s) : s[j] = "\n"} \cup {Len(s) + 1}
      kind     == IF operator \in Control THEN "control"
                  ELSE IF end = 0 \/ operator \in Nested THEN "nested" ELSE "part"
  IN IF i > Len(s) THEN <<>>
     ELSE IF s[i] = " " THEN Reading(s, i + 1)
     ELSE IF From(s, i, Continuation) THEN Reading(s, i + 2)
     ELSE IF s[i] = "#" THEN Reading(s, CHOOSE j \in line : \A k \in line : j <= k)
     ELSE IF kind = "nested" THEN <<[kind |-> kind, at |-> {}]>>
     ELSE <<[kind |-> kind, at |-> i .. end - 1]>> \o Reading(s, end)

\* A word of its own that begins more than a simple command; ! is one of them.
Reserved(s, at) ==
  \E i \in at : s[i] = "!" /\ \A j \in at \ {i} : From(s, j, Continuation) \/ From(s, j - 1, Continuation)

RunsMore(s) ==
  LET tokens == Reading(s, 1)
  IN \E k \in DOMAIN tokens :
       \/ tokens[k].kind = "nested"
       \/ /\ tokens[k].kind = "part" /\ Reserved(s, tokens[k].at)
          /\ k = 1 \/ tokens[k - 1].kind = "control"

\* The places of each simple command.  "\r" and the blanks of Unicode, which are
\* letters to the shell, are not counted: trim takes them off the ends of a segment.
Commands(s) ==
  LET tokens == Reading(s, 1)
      parts  == {k \in DOMAIN tokens : tokens[k].kind = "part"}
      Beside(k) == {j \in parts : \A m \in (j .. k) \cup (k .. j) : m \in parts}
      Letters(places) == {i \in places : s[i] \notin Foreign}
  IN {Letters(UNION {tokens[j].at : j \in Beside(k)}) : k \in parts} \ {{}}

\* Every command the shell runs is in a segment of its own that the rules allow.
Seen(s) ==
  LET split    == Split(s)
      commands == Commands(s)
      allowing == {p \in Saved : p.enabled /\ Decision(p, split) = "allowed"}
  IN split.error = Nothing =>
       /\ ~RunsMore(s)
       /\ \A c \in commands : \E k \in DOMAIN split.seen :
            /\ c \subseteq split.seen[k]
            /\ \A d \in commands \ {c} : d \cap split.seen[k] = {}
            /\ \A p \in allowing : Fine(p, split.segments[k])
-----------------------------------------------------------------------------
\* What the scan reads in another way than the shell.

\* A # behind a blank that is a letter to the shell is no comment.
ForeignComment(s) == \E i \in DOMAIN s : s[i] = "#" /\ At(s, i - 1) \in Foreign

\* An arrow with a \ before it redirects nothing.
EscapedArrow(s) ==
  \E i \in DOMAIN s : s[i] = "\\" /\ At(s, i + 1) \in Arrows /\ At(s, i + 2) \in {"&", "|"}

\* A reserved word may end at a redirection or a continued line, and begin behind one.
HiddenKeyword(s) ==
  \E i \in DOMAIN s :
    /\ s[i] = "!"
    /\ \/ At(s, i + 1) \in Arrows \/ From(s, i + 1, <<"&", ">">>) \/ From(s, i + 1, Continuation)
       \/ \E j \in 1 .. i - 2 : From(s, j, Continuation) /\ \A k \in j + 2 .. i - 1 : s[k] = " "

\* A continued line joins the characters of an operator or of an opening quote.
Joined(s) ==
  \E i \in DOMAIN s, n \in DOMAIN s :
    /\ \A k \in 1 .. n : From(s, i + 2 * k - 1, Continuation)
    /\ <<s[i], At(s, i + 2 * n + 1)>> \in {o \in Operators : Len(o) = 2} \cup {<<"$", "{">>, <<"$", "'">>}

\* Quotes inside of ${ } may hold its end.
QuotedExpansion(s) ==
  \E i \in DOMAIN s :
    /\ From(s, i, <<"$", "{">>)
    /\ \E j \in i .. Past(s, i + 2, "braces") - 1 : s[j] \in {"'", "\""}

\* No command of an accepted text escapes the rules, but for these texts.
CommandsSeen ==
  \/ Seen(command)
  \/ ForeignComment(command) \/ EscapedArrow(command) \/ HiddenKeyword(command)
  \/ Joined(command) \/ QuotedExpansion(command)

\* The matcher, which returns to the last star only, agrees with what a pattern
\* means: some division of the value among its tokens.
GlobAgrees ==
  LET RECURSIVE Means(_, _)
      Means(tokens, value) ==
        IF tokens = <<>> THEN value = <<>>
        ELSE IF Head(tokens).kind = "many"
        THEN \E k \in 1 .. Len(value) + 1 : Means(Tail(tokens), SubSeq(value, k, Len(value)))
        ELSE value # <<>> /\ Fits(Head(tokens), Head(value)) /\ Means(Tail(tokens), Tail(value))
  IN command \in Values => \A p \in Patterns : Glob(p, command) <=> Means(Tokens(p), command)
=============================================================================
