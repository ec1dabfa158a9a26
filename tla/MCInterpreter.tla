--------------------------- MODULE MCInterpreter ---------------------------
EXTENDS Interpreter
=============================================================================
