--------------------------- MODULE LanguageServer ---------------------------
(***************************************************************************)
(* The language server, tools/visuall-lsp: one thread that reads a message *)
(* from its input, handles it and goes back (json_rpc.cpp), the documents  *)
(* an editor has open (document_store.cpp), the index of their symbols     *)
(* (workspace_index.cpp), and the editor at the other end of the pipe.     *)
(*                                                                         *)
(* The editor keeps a text of characters and sends what it changed by line *)
(* and column; the server keeps bytes.  What the analysis says of a text   *)
(* is left to a few characters: a "quote" that is not closed, a            *)
(* "parenthesis" that is not, a word of the wrong "type".                  *)
(***************************************************************************)
EXTENDS Integers, Sequences, FiniteSets, SequencesExt

CONSTANTS
  Uri,
  Written,    \* texts that a document is opened with
  Inserted,   \* texts that an edit puts in
  MaxText,    \* bound: characters of a text
  MaxEdits,   \* bound: edits of one session
  MaxSent,    \* bound: messages of one session
  NULL

Char == {"wide", "wide2"} \cup UNION {ToSet(t) : t \in Written \cup Inserted}
TextPlaces == [line : Nat, character : Nat]
Documents == [content : Seq(Char), version : Nat, symbols : Seq(Char), diagnostics : SUBSET {"Parser error", "Type error"}]

(* NULL is none of the things that it stands in for.                       *)
ASSUME SessionAssumption ==
  /\ \A t \in Written \cup Inserted : t \in Seq(ToSet(t))
  /\ NULL \notin Seq(Char) /\ NULL \notin TextPlaces /\ NULL \notin Documents
  /\ NULL \notin Nat /\ NULL \notin {"crash", "0", "1"}

VARIABLES
  text,       \* editor: the text of an open document, or NULL
  version,    \* editor: of the text last sent
  batch,      \* editor: the edits of one document that were not sent yet
  edits, sent,
  shown,      \* editor: the diagnostics it was given last
  asked, answered,  \* ids of requests
  skewed,     \* history: documents edited behind a character of two bytes
  pipe,       \* stdin of the server
  docs,       \* store_: NULL, or content, version and what reanalyze found
  index,      \* workspaceIndex_: the symbols of a file, or NULL
  shutdown_,
  ended       \* NULL, or how the process ended

editor == <<text, version, batch, edits, sent, skewed, asked>>
server == <<docs, index, shutdown_, shown, answered, ended>>
sessionVars == <<editor, pipe, server>>

-----------------------------------------------------------------------------
(* The editor. *)
Coded(c) == IF c = "wide" THEN <<"wide", "wide2">> ELSE <<c>>
Bytes(t) == FoldLeft(LAMBDA bytes, c : bytes \o Coded(c), << >>, t)

Breaks(t, i) == {k \in 1 .. i : t[k] = "break"}
LineOf(t, i) == Cardinality(Breaks(t, i))
LineStart(t, i) == IF Breaks(t, i) = {} THEN 0 ELSE CHOOSE k \in Breaks(t, i) : \A j \in Breaks(t, i) : j <= k
Position(t, i) == [line |-> LineOf(t, i), character |-> i - LineStart(t, i)]

Send(m) == sent < MaxSent /\ sent' = sent + 1 /\ pipe' = Append(pipe, m)

EditorOpens(u, t) ==
  /\ text[u] = NULL /\ batch = << >>
  /\ Send([kind |-> "didOpen", uri |-> u, text |-> Bytes(t), version |-> version[u] + 1])
  /\ text' = [text EXCEPT ![u] = t] /\ version' = [version EXCEPT ![u] = @ + 1]
  /\ skewed' = skewed \ {u}
  /\ UNCHANGED <<batch, edits, asked, server>>

Edited(t, i, j, new) == SubSeq(t, 1, i) \o new \o SubSeq(t, j + 1, Len(t))

EditorEdits(u, i, j, new) ==
  LET t == text[u] IN
  /\ t # NULL /\ (\A e \in ToSet(batch) : e.uri = u) /\ edits < MaxEdits
  /\ i <= j /\ j <= Len(t) /\ Len(Edited(t, i, j, new)) <= MaxText
  /\ batch' = Append(batch, [uri |-> u, start |-> Position(t, i), end |-> Position(t, j), text |-> Bytes(new)])
  /\ text' = [text EXCEPT ![u] = Edited(t, i, j, new)]
  /\ skewed' = IF \E k \in {i, j} : "wide" \in ToSet(SubSeq(t, LineStart(t, k) + 1, k))
               THEN skewed \cup {u} ELSE skewed
  /\ edits' = edits + 1
  /\ UNCHANGED <<version, sent, asked, pipe, server>>

EditorReplaces(u, new) ==
  /\ text[u] # NULL /\ (\A e \in ToSet(batch) : e.uri = u) /\ edits < MaxEdits
  /\ batch' = Append(batch, [uri |-> u, start |-> NULL, text |-> Bytes(new)])
  /\ text' = [text EXCEPT ![u] = new] /\ skewed' = skewed \ {u} /\ edits' = edits + 1
  /\ UNCHANGED <<version, sent, asked, pipe, server>>

EditorSends ==
  /\ batch # << >>
  /\ LET u == batch[1].uri IN
     /\ Send([kind |-> "didChange", uri |-> u, version |-> version[u] + 1, changes |-> batch])
     /\ version' = [version EXCEPT ![u] = @ + 1]
  /\ batch' = << >>
  /\ UNCHANGED <<text, edits, skewed, asked, server>>

EditorCloses(u) ==
  /\ text[u] # NULL /\ batch = << >>
  /\ Send([kind |-> "didClose", uri |-> u])
  /\ text' = [text EXCEPT ![u] = NULL]
  /\ UNCHANGED <<version, batch, edits, skewed, asked, server>>

(* A request about a document, or one that the server does not know. *)
EditorAsks(kind) ==
  /\ batch = << >>
  /\ Send([kind |-> kind, id |-> asked + 1]) /\ asked' = asked + 1
  /\ UNCHANGED <<text, version, batch, edits, skewed, server>>

(* exit, bytes that are no JSON, JSON that is no object, or the end of the *)
(* input.                                                                  *)
EditorSays(kind) ==
  /\ batch = << >>
  /\ Send([kind |-> kind])
  /\ UNCHANGED <<text, version, batch, edits, skewed, asked, server>>

-----------------------------------------------------------------------------
(* reanalyze.  tokenize throws its first error and leaves the tokens of the*)
(* document empty; the parser is run all the same, and reads the first of  *)
(* them: the process dies.                                                 *)
Lexes(c)  == "quote" \notin ToSet(c)
Parses(c) == "parenthesis" \notin ToSet(c)
Symbols(c) == IF Lexes(c) /\ Parses(c) THEN c ELSE << >>

Analyzed(c, v) ==
  [content |-> c, version |-> v, symbols |-> Symbols(c),
   diagnostics |-> IF ~Parses(c) THEN {"Parser error"}
                   ELSE IF "type" \in ToSet(c) THEN {"Type error"} ELSE {}]

Diagnostics(d) == IF d = NULL THEN {} ELSE d.diagnostics

(* offsetOf: the column is added to the start of the line. *)
Offset(c, p) ==
  LET breaks == {k \in DOMAIN c : c[k] = "break"}
      before == {k \in breaks : Cardinality({b \in breaks : b < k}) < p.line} IN
  (IF Cardinality(breaks) < p.line THEN Len(c)
   ELSE IF before = {} THEN 0 ELSE CHOOSE k \in before : \A b \in before : b <= k) + p.character

(* content.replace: a length below zero wraps, so an edit whose end lies    *)
(* before its start replaces the rest of the text.                         *)
Applied(c, e) ==
  IF e.start = NULL THEN e.text
  ELSE LET i == Offset(c, e.start)
           j == Offset(c, e.end)
           last == IF j < i THEN Len(c) ELSE j
       IN  IF i <= Len(c) /\ j <= Len(c) THEN SubSeq(c, 1, i) \o e.text \o SubSeq(c, last + 1, Len(c)) ELSE c

(* Mutant: the edits of a message are applied from the last to the first.  *)
ChangedBackwards(c, changes) == FoldLeft(Applied, c, Reverse(changes))

Changed(c, changes) == FoldLeft(Applied, c, changes)

-----------------------------------------------------------------------------
(* The loop: a message of the kind is taken from the input.                *)
Receive(kinds) ==
  /\ ended = NULL /\ pipe # << >> /\ Head(pipe).kind \in kinds
  /\ pipe' = Tail(pipe)
Msg == Head(pipe)

(* Store, reanalyze, index and publish, in this order. *)
Store(u, c, v) ==
  IF ~Lexes(c)
  THEN ended' = "crash" /\ UNCHANGED <<docs, index, shown>>
  ELSE /\ docs' = [docs EXCEPT ![u] = Analyzed(c, v)]
       /\ index' = [index EXCEPT ![u] = Symbols(c)]
       /\ shown' = [shown EXCEPT ![u] = Diagnostics(docs'[u])]
       /\ UNCHANGED ended

DidOpen ==
  /\ Receive({"didOpen"})
  /\ Store(Msg.uri, Msg.text, Msg.version)
  /\ UNCHANGED <<editor, shutdown_, answered>>

DidChange ==
  /\ Receive({"didChange"})
  /\ IF docs[Msg.uri] = NULL THEN UNCHANGED <<docs, index, shown, ended>>
     ELSE Store(Msg.uri, Changed(docs[Msg.uri].content, Msg.changes), Msg.version)
  /\ UNCHANGED <<editor, shutdown_, answered>>

(* Mutant: the symbols of a closed document stay in the index. *)
RemovedNever(u) == index

Removed(u) == [index EXCEPT ![u] = NULL]

DidClose ==
  /\ Receive({"didClose"})
  /\ docs' = [docs EXCEPT ![Msg.uri] = NULL]
  /\ index' = Removed(Msg.uri)
  /\ shown' = [shown EXCEPT ![Msg.uri] = {}]
  /\ UNCHANGED <<editor, shutdown_, answered, ended>>

(* dispatch: a handler returns or throws, and a method without a handler is*)
(* an error; each is an answer to the id.                                  *)
Answer ==
  /\ Receive({"hover", "unknown", "shutdown"})
  /\ answered' = Append(answered, Msg.id)
  /\ shutdown_' = (shutdown_ \/ Msg.kind = "shutdown")
  /\ UNCHANGED <<editor, docs, index, shown, ended>>

Exit ==
  /\ Receive({"exit"})
  /\ ended' = IF shutdown_ THEN "0" ELSE "1"
  /\ UNCHANGED <<editor, docs, index, shutdown_, shown, answered>>

(* parse_error is answered without an id, another exception is logged. *)
Malformed ==
  /\ Receive({"no JSON", "no object"})
  /\ answered' = IF Msg.kind = "no JSON" THEN Append(answered, NULL) ELSE answered
  /\ UNCHANGED <<editor, docs, index, shutdown_, shown, ended>>

(* readMessage: the end of the input, inside a message or between two, and *)
(* a message of length 0 end the loop.                                     *)
EndOfInput ==
  /\ Receive({"eof"})
  /\ ended' = "0"
  /\ UNCHANGED <<editor, docs, index, shutdown_, shown, answered>>

HandleMessage == DidOpen \/ DidChange \/ DidClose \/ Answer \/ Exit \/ Malformed \/ EndOfInput

SessionStart ==
  /\ text = [u \in Uri |-> NULL] /\ version = [u \in Uri |-> 0]
  /\ batch = << >> /\ edits = 0 /\ sent = 0 /\ skewed = {} /\ asked = 0
  /\ pipe = << >>
  /\ docs = [u \in Uri |-> NULL] /\ index = [u \in Uri |-> NULL]
  /\ shutdown_ = FALSE /\ shown = [u \in Uri |-> {}] /\ answered = << >> /\ ended = NULL

SessionNext ==
  \/ \E u \in Uri : \E t \in Written : EditorOpens(u, t)
  \/ \E u \in Uri : \E i, j \in 0 .. MaxText : \E new \in Inserted : EditorEdits(u, i, j, new)
  \/ \E u \in Uri : \E new \in Inserted : EditorReplaces(u, new)
  \/ EditorSends
  \/ \E u \in Uri : EditorCloses(u)
  \/ \E kind \in {"hover", "unknown", "shutdown"} : EditorAsks(kind)
  \/ \E kind \in {"exit", "no JSON", "no object", "eof"} : EditorSays(kind)
  \/ HandleMessage

SessionSpec == SessionStart /\ [][SessionNext]_sessionVars

-----------------------------------------------------------------------------
Idle == pipe = << >> /\ batch = << >> /\ ended = NULL

(* When the server has handled all it was sent, it has the documents that  *)
(* the editor has open, with their last version and, byte for byte, their  *)
(* text, however edits were batched and shifted each other; unless an edit *)
(* was made behind a character of two bytes in its line, which moves it.   *)
DocumentsAgree ==
  Idle => \A u \in Uri :
    /\ docs[u] = NULL <=> text[u] = NULL
    /\ docs[u] # NULL =>
         docs[u].version = version[u] /\ (u \notin skewed => docs[u].content = Bytes(text[u]))

(* What the editor shows and what other documents find is computed from    *)
(* the last text, and nothing is left of a closed document; every request  *)
(* has one answer, in order.                                               *)
AnalysisIsCurrent ==
  Idle =>
    /\ \A u \in Uri :
         /\ shown[u] = IF docs[u] = NULL THEN {} ELSE Analyzed(docs[u].content, 0).diagnostics
         /\ index[u] = IF text[u] = NULL THEN NULL ELSE Symbols(docs[u].content)
    /\ ToSet(answered) \ {NULL} = 1 .. asked
    /\ \A i, j \in DOMAIN answered :
         i < j /\ answered[i] # NULL /\ answered[j] # NULL => answered[i] < answered[j]
=============================================================================
