------------------------------- MODULE Lexer -------------------------------
(***************************************************************************)
(* The layout half of src/lexer.cpp: the constructor, which turns leading  *)
(* spaces into tabs, and tokenize with its indentation stack.  A line is   *)
(* its leading whitespace, "t" and "s", and its pieces: "code", "hash" for *)
(* a comment to the end of the line, "mark" for ###.  What code is made of *)
(* is left out: it becomes one word.                                       *)
(***************************************************************************)
EXTENDS Naturals, Sequences, FiniteSets, SequencesExt

CONSTANT Sources    \* sequences of lines [lead, body]

VARIABLES
  source,       \* as written
  open,         \* the last line has no newline
  text,         \* source_, normalised
  line, piece,  \* pos_: the line, and how many of its pieces are consumed
  atLineStart,
  indentStack,  \* its top is its last element
  tokens,
  errors        \* kinds of the recorded errors
vars == <<source, open, text, line, piece, atLineStart, indentStack, tokens, errors>>

-----------------------------------------------------------------------------
(* normalizeIndentation of one line: four spaces make a tab, and so do     *)
(* fewer at the end; one or two before a tab stay.                         *)
Spaces(n) == [i \in 1 .. n |-> "s"]
Tabs(lead) ==
  LET next(st, c) ==
        IF c = "t"
        THEN [out |-> st.out \o (IF st.n = 3 THEN <<"t">> ELSE Spaces(st.n)) \o <<"t">>, n |-> 0]
        ELSE IF st.n = 3 THEN [out |-> Append(st.out, "t"), n |-> 0]
        ELSE [st EXCEPT !.n = @ + 1]
      end == FoldLeft(next, [out |-> << >>, n |-> 0], lead)
  IN IF end.n > 0 THEN Append(end.out, "t") ELSE end.out

(* The newline of a blank line that is at its start is taken for the first *)
(* character of its text, and the line after it for the rest of that text: *)
(* its spaces stay.                                                        *)
Reached(src) ==
  LET r[i \in DOMAIN src] == i = 1 \/ ~(r[i - 1] /\ src[i - 1].body = << >>) IN r

Normalised(src) ==
  [i \in DOMAIN src |-> IF Reached(src)[i] THEN [src[i] EXCEPT !.lead = Tabs(@)] ELSE src[i]]

Init ==
  /\ source \in Sources /\ open \in BOOLEAN
  /\ text = Normalised(source)
  /\ line = 1 /\ piece = 0 /\ atLineStart = TRUE
  /\ indentStack = <<0>> /\ tokens = << >> /\ errors = {}

-----------------------------------------------------------------------------
Done     == tokens # << >> /\ Last(tokens) = "EOF"
Here     == text[line]
Rest     == Len(Here.body) - piece
Running  == ~Done /\ line <= Len(text)
Unchanged == UNCHANGED <<source, open, text>>

(* Mutant: one block is closed, however far the line moves out. *)
PoppedOne(depth) == IF Last(indentStack) > depth THEN Front(indentStack) ELSE indentStack

Popped(depth) == SelectSeq(indentStack, LAMBDA d : d <= depth)

(* handleIndentation.  An IndentationError skips the line, another error   *)
(* leaves the rest of it to be scanned.                                    *)
LineStart ==
  LET depth == Len(Here.lead)
      code  == Here.body # << >> /\ Here.body[1] = "code" IN
  /\ Running /\ atLineStart
  /\ atLineStart' = FALSE
  /\ \/ /\ "s" \in ToSet(Here.lead)
        /\ tokens' = Append(tokens, "ERROR") /\ errors' = errors \cup {"indentation"}
        /\ piece' = Len(Here.body) /\ UNCHANGED indentStack
     \/ /\ "s" \notin ToSet(Here.lead) /\ ~code
        /\ UNCHANGED <<tokens, errors, piece, indentStack>>
     \/ /\ "s" \notin ToSet(Here.lead) /\ code
        /\ IF depth > Last(indentStack)
           THEN /\ indentStack' = Append(indentStack, depth) /\ tokens' = Append(tokens, "INDENT")
                /\ UNCHANGED errors
           ELSE LET stack == Popped(depth)
                    closed == tokens \o [i \in 1 .. Len(indentStack) - Len(stack) |-> "DEDENT"] IN
                /\ indentStack' = stack
                /\ IF Last(stack) = depth THEN tokens' = closed /\ UNCHANGED errors
                   ELSE tokens' = Append(closed, "ERROR") /\ errors' = errors \cup {"inconsistent"}
        /\ UNCHANGED piece
  /\ UNCHANGED line /\ Unchanged

Word ==
  /\ Running /\ ~atLineStart /\ Rest > 0 /\ Here.body[piece + 1] = "code"
  /\ tokens' = Append(tokens, "word") /\ piece' = piece + 1
  /\ UNCHANGED <<line, atLineStart, indentStack, errors>> /\ Unchanged

LineComment ==
  /\ Running /\ ~atLineStart /\ Rest > 0 /\ Here.body[piece + 1] = "hash"
  /\ piece' = Len(Here.body)
  /\ UNCHANGED <<line, atLineStart, indentStack, tokens, errors>> /\ Unchanged

(* skipMultiLineComment: to behind the next mark, on whatever line. *)
BlockComment ==
  LET ends == {q \in UNION {{l} \X DOMAIN text[l].body : l \in line .. Len(text)} :
                 text[q[1]].body[q[2]] = "mark" /\ (q[1] = line => q[2] > piece + 1)}
      end == CHOOSE q \in ends : \A r \in ends : q[1] < r[1] \/ (q[1] = r[1] /\ q[2] <= r[2]) IN
  /\ Running /\ ~atLineStart /\ Rest > 0 /\ Here.body[piece + 1] = "mark"
  /\ IF ends # {}
     THEN line' = end[1] /\ piece' = end[2] /\ UNCHANGED <<tokens, errors>>
     ELSE /\ line' = Len(text) + 1 /\ piece' = 0
          /\ tokens' = Append(tokens, "ERROR") /\ errors' = errors \cup {"comment"}
  /\ UNCHANGED <<atLineStart, indentStack>> /\ Unchanged

NewLine ==
  /\ Running /\ ~atLineStart /\ Rest = 0 /\ ~(open /\ line = Len(text))
  /\ tokens' = IF tokens = << >> \/ Last(tokens) \in {"NEWLINE", "INDENT", "DEDENT"} THEN tokens
               ELSE Append(tokens, "NEWLINE")
  /\ line' = line + 1 /\ piece' = 0 /\ atLineStart' = TRUE
  /\ UNCHANGED <<indentStack, errors>> /\ Unchanged

(* The end of the source closes the open blocks; the first error is then   *)
(* thrown.                                                                 *)
EndOfFile ==
  /\ ~Done /\ (line > Len(text) \/ (open /\ line = Len(text) /\ ~atLineStart /\ Rest = 0))
  /\ tokens' = tokens \o [i \in 1 .. Len(indentStack) - 1 |-> "DEDENT"] \o <<"EOF">>
  /\ indentStack' = <<0>>
  /\ UNCHANGED <<line, piece, atLineStart, errors>> /\ Unchanged

Next == LineStart \/ Word \/ LineComment \/ BlockComment \/ NewLine \/ EndOfFile
Spec == Init /\ [][Next]_vars

-----------------------------------------------------------------------------
(* The lines of code, with marks read as they open and close comments.     *)
Marks(src, i) == Cardinality({j \in 1 .. i - 1 : "mark" \in ToSet(src[j].body)})
Outside(src)  == {i \in DOMAIN src : Marks(src, i) % 2 = 0}
CodeLines(src) == {i \in Outside(src) : src[i].body # << >> /\ src[i].body[1] = "code"}
Depth(src, i) == IF i = 0 THEN 0 ELSE Len(Tabs(src[i].lead))

(* The lines that enclose line i: the less indented ones before it with no *)
(* line in between that is indented as little.  Line 0 is the file.        *)
Enclosing(src, i) ==
  {j \in {0} \cup CodeLines(src) :
     /\ j < i /\ Depth(src, j) < Depth(src, i)
     /\ \A k \in CodeLines(src) : j < k /\ k < i => Depth(src, j) < Depth(src, k)}

(* A line continues the block of an earlier one, or opens one under the    *)
(* line before it; and tabs and spaces are not mixed.                      *)
Continues(src, i) ==
  \E j \in {0} \cup CodeLines(src) :
    /\ j < i
    /\ \A k \in CodeLines(src) : j <= k /\ k < i => Depth(src, k) >= Depth(src, i)
    /\ Depth(src, j) = Depth(src, i)
Opens(src, i) ==
  LET before == {0} \cup {j \in CodeLines(src) : j < i} IN
  Depth(src, i) > Depth(src, CHOOSE j \in before : \A k \in before : k <= j)
Consistent(src) ==
  /\ \A i \in Outside(src) : "s" \notin ToSet(Tabs(src[i].lead))
  /\ \A i \in CodeLines(src) : Continues(src, i) \/ Opens(src, i)
  /\ Marks(src, Len(src) + 1) % 2 = 0

(* The words of the tokens, and how deep the blocks around them are. *)
Words == SelectSeq([i \in DOMAIN tokens |-> i], LAMBDA i : tokens[i] = "word")
Level(i) ==
  Cardinality({j \in 1 .. i : tokens[j] = "INDENT"}) - Cardinality({j \in 1 .. i : tokens[j] = "DEDENT"})

(* Code behind a comment that ends on its line is not indented. *)
CodeBehindComment(src) ==
  \E i \in DOMAIN src : \E p, q \in DOMAIN src[i].body :
    p < q /\ src[i].body[p] = "mark" /\ src[i].body[q] = "code"
SpacesAfterBlank(src) ==
  \E i \in Outside(src) : ~Reached(src)[i] /\ "s" \in ToSet(src[i].lead)

(* The token stream has the block structure that the indentation shows,    *)
(* whatever blank lines and comments stand in between and whether the file *)
(* ends in a block: an error is reported exactly when a line continues no  *)
(* block, INDENT and DEDENT balance, every line of code starts behind a    *)
(* NEWLINE, INDENT or DEDENT, and as deep as the lines that enclose it are *)
(* many.                                                                   *)
LayoutIsBlockStructure ==
  Done /\ ~CodeBehindComment(source) /\ ~SpacesAfterBlank(source) =>
    /\ errors = {} <=> Consistent(source)
    /\ errors = {} =>
         LET code == SetToSortSeq(CodeLines(source), <) IN
         /\ Len(Words) = Len(code) /\ Level(Len(tokens)) = 0
         /\ \A n \in DOMAIN code :
              /\ Level(Words[n]) = Cardinality({Depth(source, j) : j \in Enclosing(source, code[n])})
              /\ Words[n] > 1 => tokens[Words[n] - 1] \in {"NEWLINE", "INDENT", "DEDENT"}

(* The comment at lexer.cpp:73 says that leading whitespace on every line  *)
(* is turned into tabs, which "lets users write space-indented code        *)
(* without hitting IndentationError".                                      *)
SpacesAreTabs ==
  (\A i \in DOMAIN source : "t" \notin ToSet(source[i].lead)) => "indentation" \notin errors
=============================================================================
