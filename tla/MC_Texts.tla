------------------------------ MODULE MC_Texts ------------------------------
(* Short texts over the characters that the functions tell apart. *)
EXTENDS Texts

\* Here and not in the .cfg, where a backslash in a string is no escape.
SqlChars   == {"a", " ", "'", "-", ";", "\n"}
TypedChars == {"a", "A", "_", "%", "\\"}
ListParts  == {"\"", "1", ",", " ", "*", "W/"}

\* "1" as EnvETag writes it.
ThisETag == <<"\"", "1", "\"">>
=============================================================================
