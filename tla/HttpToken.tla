------------------------------ MODULE HttpToken ------------------------------
(***************************************************************************)
(* The character classes the parser decides by: the table of               *)
(* uurl/http_token.c and the CHAR_IS_* macros of uurl/http_parse.c, over   *)
(* the values of the parser's uint8_t ch.                                  *)
(***************************************************************************)
EXTENDS Integers

Byte == 0..255

HTAB  == 9
LF    == 10
CR    == 13
SP    == 32
COLON == 58

\* http_is_token: the bytes whose entry in is_http_token is 1.
Tokens == {33} \cup 35..39 \cup {42, 43, 45, 46} \cup 48..57
            \cup 65..90 \cup 94..122 \cup {124, 126}

IsToken(c) == c \in Tokens

IsDigit(c) == c \in 48..57

IsCrlf(c) == c \in {CR, LF}

IsCrlfOrSpace(c) == c \in {CR, LF, SP}

IsHtabOrSpace(c) == c \in {HTAB, SP}

\* (Slip: the upper half is taken to begin at 0x80.)
IsIso8859_1_Slip(c) == c \in 32..126 \/ c \in 128..255

IsIso8859_1(c) == c \in 32..126 \/ c \in 160..255

\* toupper and tolower in the C locale.
Upper(c) == IF c \in 97..122 THEN c - 32 ELSE c
Lower(c) == IF c \in 65..90 THEN c + 32 ELSE c

=============================================================================
