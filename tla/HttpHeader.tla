----------------------------- MODULE HttpHeader ------------------------------
(***************************************************************************)
(* The header store of a message: the table of known headers and the       *)
(* lookup of uurl/http_header.c, the fixed slots (http_message.headers),   *)
(* the growable list of further headers (http_xheaders) and the insertion  *)
(* that uurl/http_parse.c performs on them.                                *)
(*                                                                         *)
(* A known header is named by its row in the lookup's chain of             *)
(* comparisons: enum http_headers is in one-to-one correspondence with     *)
(* those rows.  A row's text is given in lower case, since strncasecmp     *)
(* folds both sides.                                                       *)
(***************************************************************************)
EXTENDS HttpToken, Sequences, FiniteSetsExt

CONSTANTS
  Table,        \* the rows' texts, in the order http_header_lookup tries them
  Repeatable,   \* the rows for which http_header_is_repeatable holds
  UINT16        \* how many values a uint16_t has: 2^16 in the code

UNKNOWN == -1   \* HTTP_HEADERS_UNKNOWN

KnownHeaders == 1..Len(Table)

\* No text holds a colon, the byte that ends a header's name in the input.
ASSUME TableAssumption ==
  /\ Table \in Seq(Seq(Byte))
  /\ \A k \in 1..Len(Table) : \A j \in 1..Len(Table[k]) : Table[k][j] # COLON
  /\ Repeatable \subseteq 1..Len(Table)

ASSUME UINT16Assumption == UINT16 \in Nat \ {0}

-----------------------------------------------------------------------------
\* struct http_slice: offsets into the input, cut to 16 bits when assigned.
U16(n) == n % UINT16

Slice(from, to) == [start |-> U16(from), end |-> U16(to)]

Slices == [start : 0..(UINT16 - 1), end : 0..(UINT16 - 1)]

Entries == [name : Slices, value : Slices]     \* struct http_header

NoSlice == [start |-> 0, end |-> 0]

-----------------------------------------------------------------------------
\* The comparison of a row's text with the input that begins at offset from.
PrefixAt(text, input, from) ==
  \A j \in 1..Len(text) : /\ from + j <= Len(input)
                          /\ Lower(input[from + j]) = text[j]

\* The first row whose text the input begins with.  What follows the text is
\* not looked at, so a longer name that begins with it is taken for it.
http_header_lookup(input, from) ==
  LET rows == {k \in KnownHeaders : PrefixAt(Table[k], input, from)}
  IN  IF rows = {} THEN UNKNOWN ELSE Min(rows)

-----------------------------------------------------------------------------
(***************************************************************************)
(* store.std   the fixed slots, all zero at first                          *)
(* store.x     the first xheaders.count entries of xheaders.headers        *)
(* store.cap   xheaders.capacity                                           *)
(* store.buf   whether xheaders.headers points to an allocation            *)
(***************************************************************************)
Stores == [std : [KnownHeaders -> Slices],
           x   : Seq(Entries),
           cap : Nat,
           buf : BOOLEAN]

EmptyStore == [std |-> [k \in KnownHeaders |-> NoSlice],
               x   |-> <<>>, cap |-> 0, buf |-> FALSE]

header_exists(store, h) == h # UNKNOWN /\ store.std[h].start # 0

\* Whether a header line goes to the list rather than to its slot.
\* (Slips: a repeated header spills over whether or not it is repeatable, or
\* never does.)
SpillsOftenSlip(store, h) == h = UNKNOWN \/ header_exists(store, h)
SpillsNeverSlip(store, h) == h = UNKNOWN

Spills(store, h) ==
  h = UNKNOWN \/ (header_exists(store, h) /\ h \in Repeatable)

MustGrow(store) == Len(store.x) = store.cap

\* (Slip: the first allocation is forgotten, zero doubled is zero.)
GrownSlip(cap) == cap * 2
Grown(cap) == IF cap = 0 THEN 1 ELSE cap * 2

\* xheaders_insert when realloc, if it is called, succeeds.
xheaders_insert(store, name, value) ==
  [store EXCEPT !.x   = Append(@, [name |-> name, value |-> value]),
                !.cap = IF MustGrow(store) THEN Grown(@) ELSE @,
                !.buf = @ \/ MustGrow(store)]

SetSlot(store, h, value) == [store EXCEPT !.std[h] = value]

\* http_msg_free: the list goes, its capacity and the slots stay as they were.
Freed(store) ==
  IF store.buf THEN [store EXCEPT !.x = <<>>, !.buf = FALSE] ELSE store

=============================================================================
