--------------------------- MODULE MCReleaseBudget ---------------------------
EXTENDS ReleaseBudget

OneProgram == <<4>>
====
