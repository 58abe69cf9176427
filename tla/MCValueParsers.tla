---------------------------- MODULE MCValueParsers ----------------------------
(* Every duration string of up to 3 symbols and every server-ready-on      *)
(* string of up to 5 symbols over small alphabets.                         *)
EXTENDS ValueParsers

\* Digits, three units, and a stray letter for prefixes and suffixes.
MCDurationSymbols == {"0", "1", "5", "s", "m", "a", "x"}
\* Mixed-case keywords, parentheses, digits (with 0) and a stray letter.
MCReadySymbols == {"BIND", "Listen", "(", ")", "0", "3", "x"}
=============================================================================
