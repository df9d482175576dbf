----------------------------- MODULE MCCompiler -----------------------------
\* The parts of the compiler, side by side: a behaviour takes a function
\* through Codegen's control flow (Compiler), a whole program through the
\* passes of main.cpp (Frontend), a file through the lexer (Lexer), or a
\* session of an editor through the language server (LanguageServer); the
\* other parts are idle.
EXTENDS Compiler, LanguageServer, TLC

CONSTANT MaxLines

VARIABLES
  phase, program, fields, stack, checker, gen,                               \* of Frontend
  source, open, normal, line, piece, atLineStart, indentStack, tokens, errors \* of Lexer

P == INSTANCE MCPrograms
F == INSTANCE Frontend WITH Programs <- P!AllPrograms
X == INSTANCE Lexer WITH Sources <- P!Files(MaxLines), text <- normal

\* What the editor opens and puts in.
Opened == P!Documents
Typed == {<<>>, <<"a", "break">>}

back  == vars
front == <<phase, program, fields, stack, checker, gen>>
layout == <<source, open, normal, line, piece, atLineStart, indentStack, tokens, errors>>

\* Bodies two statements deep: each jump, throw, yield and call inside each
\* statement that has a body, inside each such statement again.
Simple == {<<Act("a")>>, <<Break>>, <<Continue>>, <<Return("")>>, <<Throw("SubError")>>,
           <<AssertLt(1), Act("b")>>, <<Inc, Call("SubError"), Put("x")>>,
           <<Yield("x")>>, <<Let("z"), Inc, Yield("x"), Put("z")>>}
Clauses == {<<>>, <<Catch("", <<Act("c")>>)>>, <<Catch("SubError", <<Act("c")>>)>>,
            <<Catch("AnyError", <<Act("c")>>)>>, <<Catch("", <<Rethrow>>)>>}
Wraps(S) ==
  {<<If(<<Arm(1, a)>>, b), Act("j")>> : a \in S, b \in {<<>>, <<Act("e")>>}}
  \cup {<<While(2, <<Inc>> \o a, b)>> : a \in S, b \in {<<>>, <<Act("e")>>}}
  \cup {<<For(it, 2, a \o <<Put("y")>>, b)>> :
          a \in S, b \in {<<>>, <<Act("e")>>}, it \in {"int", "list", "obj", "dict", "gen"}}
  \cup {<<Try(a, cs, f), Act("t")>> : a \in S, cs \in Clauses, f \in {<<>>, <<Act("f")>>}}
  \cup {<<With(a), Act("w")>> : a \in S}
  \cup {<<Match(<<Case(0, g, a), Case(-1, -1, <<Act("m")>>)>>)>> : a \in S, g \in {-1, 0}}

\* What the parser refuses, or the language gives no meaning.
WellFormed(b) ==
  /\ \A s \in Within(b) : s.k = "try" => s.cs # <<>> \/ s.f # <<>>
  /\ \A p \in Places(b, <<>>) : p.s.k \in {"break", "continue"} => LoopOf(p) # 0
TwoDeep == {b \in Wraps(Wraps(Simple)) : WellFormed(b)}

FrontIdle == /\ phase = "idle" /\ program = <<>> /\ fields = << >>
             /\ stack = {} /\ checker = F!None /\ gen = F!None
BackIdle  == stage = "idle" /\ body = <<>> /\ fn = None /\ ran = None
LexerIdle == /\ source = <<>> /\ open = FALSE /\ normal = <<>> /\ line = 0 /\ piece = 0
             /\ atLineStart = FALSE /\ indentStack = <<>> /\ tokens = <<"EOF">> /\ errors = {}

\* A session begins with no document open, so an idle one is at its start.
MCInit == \/ Init /\ FrontIdle /\ LexerIdle /\ SessionStart
          \/ F!Init /\ BackIdle /\ LexerIdle /\ SessionStart
          \/ X!Init /\ FrontIdle /\ BackIdle /\ SessionStart
          \/ SessionStart /\ FrontIdle /\ BackIdle /\ LexerIdle
MCNext == \/ Next /\ UNCHANGED <<front, layout, sessionVars>>
          \/ F!Next /\ UNCHANGED <<back, layout, sessionVars>>
          \/ X!Next /\ UNCHANGED <<back, front, sessionVars>>
          \/ stage = "idle" /\ phase = "idle" /\ source = <<>>
             /\ SessionNext /\ UNCHANGED <<back, front, layout>>
MCSpec == MCInit /\ [][MCNext]_<<back, front, layout, sessionVars>>

\* The promises of Frontend, under the names it gives them.
AcceptedBuilds       == F!AcceptedBuilds
ValuesKeepTheirTypes == F!ValuesKeepTheirTypes
CapturesResolve      == F!CapturesResolve
FieldsExtendBase     == F!FieldsExtendBase
MethodsAgree         == F!MethodsAgree
NamedValuesEscape    == F!NamedValuesEscape

\* The promise of Lexer.
LayoutIsBlockStructure == source # <<>> => X!LayoutIsBlockStructure

=============================================================================
