------------------------------ MODULE MCLexer ------------------------------
\* The files of MCPrograms for the lexer alone.
EXTENDS Lexer
CONSTANT MaxLines
P == INSTANCE MCPrograms
Files == P!Files(MaxLines)
============================================================================
