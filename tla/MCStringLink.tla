---------------------------- MODULE MCStringLink ----------------------------
(* StringLink on five strings: a base of five bytes, one that shares its    *)
(* first four, one that extends it, one too short a match, which is an enum *)
(* value, and the empty string.                                             *)
EXTENDS StringLink

MCChars == 1..4

MCStrings == { << >>, << 1, 1, 1, 1, 2 >>, << 1, 1, 1, 1, 3 >>,
               << 1, 1, 1, 1, 2, 4 >>, << 1, 1, 1, 4 >> }

MCFields == { "color" }

\* The receiver knows one more code than the sender.
MCSndEnums == [f \in MCFields |-> << << 1, 1, 1, 4 >>, << >> >>]
MCRcvEnums == [f \in MCFields |-> << << 1, 1, 1, 4 >>, << >>, << 1, 1, 1, 1, 3 >> >>]
=============================================================================
