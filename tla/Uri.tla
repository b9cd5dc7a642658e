-------------------------------- MODULE Uri --------------------------------
(***************************************************************************)
(* UriEscape and UriUnescape.  Of the characters that are percent-encoded  *)
(* these are told apart: "%", "+", the space, the slash and "NUL"; "other" *)
(* is any character that an escape stands for besides them.  Every other   *)
(* one, the digits of the escapes too, stands for a character that passes  *)
(* through (an alphanumeric one, or one of "-_.~").                        *)
(***************************************************************************)
EXTENDS Integers, Sequences

\* The escape mode.
Modes == {"ALL", "QUERY", "PATH"}

\* The hexadecimal digits of the characters that are percent-encoded.
Hex == [c \in {"%", "+", " ", "/", "NUL"} |->
          CASE c = "%" -> <<"2", "5">> [] c = "+" -> <<"2", "B">> [] c = " " -> <<"2", "0">>
            [] c = "/" -> <<"2", "F">> [] c = "NUL" -> <<"0", "0">>]

\* The hexadecimal digit a character is, in either case.
LowerCase == [d \in {"a", "b", "c", "d", "e", "f"} |->
                CASE d = "a" -> "A" [] d = "b" -> "B" [] d = "c" -> "C"
                  [] d = "d" -> "D" [] d = "e" -> "E" [] d = "f" -> "F"]
Digits == {"0", "1", "2", "3", "4", "5", "6", "7", "8", "9", "A", "B", "C", "D", "E", "F"}
kHexTable == [d \in Digits \cup DOMAIN LowerCase |-> IF d \in Digits THEN d ELSE LowerCase[d]]

\* The percent sign itself is passed through.
Escape_Percent(c, mode) ==
    IF c = "/" /\ mode = "PATH" THEN <<c>>
    ELSE IF c = " " /\ mode = "QUERY" THEN <<"+">>
    ELSE IF c \in DOMAIN Hex \ {"%"} THEN <<"%", Hex[c][1], Hex[c][2]>> ELSE <<c>>

\* One character: PATH passes the slash, QUERY makes a space a plus.
Escape(c, mode) ==
    IF c = "/" /\ mode = "PATH" THEN <<c>>
    ELSE IF c = " " /\ mode = "QUERY" THEN <<"+">>
    ELSE IF c \in DOMAIN Hex THEN <<"%", Hex[c][1], Hex[c][2]>> ELSE <<c>>

UriEscape(s, mode) ==
    LET at[k \in 0 .. Len(s)] == IF k = 0 THEN <<>> ELSE at[k - 1] \o Escape(s[k], mode)
    IN  at[Len(s)]

\* The character the escape at place k of s stands for, if it is one.
Decoded(s, k) ==
    IF k + 2 > Len(s) \/ s[k + 1] \notin DOMAIN kHexTable \/ s[k + 2] \notin DOMAIN kHexTable THEN {}
    ELSE LET known == {c \in DOMAIN Hex : Hex[c] = <<kHexTable[s[k + 1]], kHexTable[s[k + 2]]>>}
         IN  IF known = {} THEN {"other"} ELSE known

\* The character at place k read after r, of which skip more characters belong
\* to an escape; an escape that is not one throws.
Unescape(r, s, k, mode) ==
    IF ~r.ok THEN r
    ELSE IF r.skip > 0 THEN [ok |-> TRUE, text |-> r.text, skip |-> r.skip - 1]
    ELSE IF s[k] # "%"
    THEN [ok |-> TRUE, text |-> Append(r.text, IF s[k] = "+" /\ mode = "QUERY" THEN " " ELSE s[k]),
          skip |-> 0]
    ELSE IF Decoded(s, k) = {} THEN [ok |-> FALSE, text |-> r.text, skip |-> 0]
    ELSE [ok |-> TRUE, text |-> Append(r.text, CHOOSE c \in Decoded(s, k) : TRUE), skip |-> 2]

UriUnescape(s, mode) ==
    LET at[k \in 0 .. Len(s)] == IF k = 0 THEN [ok |-> TRUE, text |-> <<>>, skip |-> 0]
                                 ELSE Unescape(at[k - 1], s, k, mode)
    IN  at[Len(s)]
=============================================================================
