------------------------------- MODULE MCGlob -------------------------------
\* Constant values for model-checking Glob.
EXTENDS Glob, TLC

\* a, b and the operators.
AllOperators == {97, 98, Star, Question, Open, CloseB, Caret, Backslash, Dash}
Names == {97, Open}
=============================================================================
