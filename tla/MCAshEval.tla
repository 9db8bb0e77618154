----------------------------- MODULE MCAshEval -----------------------------
EXTENDS AshEval

EveryKind == {"semi", "and", "or", "if", "while", "until", "for", "case", "function",
              "eval", "trap", "lc", "subshell", "background", "process"}
=============================================================================
