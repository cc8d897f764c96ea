# uurl in TLA+

`uurl` is a small C library for HTTP clients. What it has so far is an
incremental parser of HTTP/1.x message heads, derived from the parser of
cosmopolitan, which is kept beside it as a reference and run against the same
tests. This directory holds models of both parsers and of their callers in TLA+,
the TLC runs that check them on small instances, and theorems checked by TLAPS.

## 1. The system

| Component | Code | State | Operations |
|---|---|---|---|
| Character classes | `uurl/http_token.c`, macros of `uurl/http_parse.c` | none (a table) | `http_is_token`, `CHAR_IS_*` |
| Known headers | `uurl/http_header.c` | none (93 rows, a set) | `http_header_lookup`, `http_header_is_repeatable` |
| Header store | `struct http_message.headers`, `struct http_xheaders` | one slice per known header; a list that doubles | `header_exists`, `xheaders_insert`, `xheaders_grow` |
| Incremental parser | `http_msg_parse` | `struct http_message_parser`: state, index, cursor, pending name, the call's arguments | one call; in it, one iteration per byte |
| Message lifecycle | `http_msg_init`, `http_msg_free` | the whole `struct http_message` | |
| Caller | not in the repository but for its tests | a buffer that fills and moves, its capacity | reads, calls, calls again, asks |
| Further header values | `http_header_get_xheader_value`, `http_slice_new` | reads the list and the last call's buffer | |
| Reference parser | `cosmopolitan/net/http/*.c` | its own `struct HttpMessage` | init, reset, destroy, parse |
| Annotated copy, stubs, builds, tests, debug output | the rest | none | |

How they interact. The caller owns the buffer. It appends to it what the peer
sends and hands *all it has so far* to `http_msg_parse`, which carries on at
`parser.i`; there is one thread, no callback, and the parser keeps pointers to
nothing but the buffer of the last call. The parser classifies each byte,
records slices (two 16-bit offsets into the buffer) in the message, looks a
header's name up when the header's line ends, and stores its value in a slot or
in the list. The answer of a call is a length (a whole head), 0 (more bytes are
needed) or -1 (malformed, or the buffer is full, or `realloc` failed; the caller
is not told which). A question for a further header is answered from the list,
through the pointer that the last call left. The reference parser is a second
implementation of the same contract; its token table and its repeatable headers are
uurl's, and its rows of known headers are uurl's but for the spelling of one.

What is hard here is not concurrency but *time*: a message may be cut anywhere,
so twelve states and four pieces of pending data have to survive between calls;
a call may fail half way and be made again, or be made again after the head was
accepted; the buffer may move; offsets have three widths (`size_t`, `uint32_t`,
`uint16_t`); two of the cursor's assignments point one past the byte just read,
a thing the source itself marks with "BUG: Could this possibly point past the
buffer?". What makes each component correct:

- character classes and fields: no control code but tab in any field;
- lookup: a line is stored under the header it names;
- header store: entries fit the allocation, nothing recorded is rewritten, a
  repeated header spills over if it is repeatable;
- parser: the same answer and the same fields however the message is cut; it
  reads only the bytes of the call; it accepts exactly the heads of messages;
- with its caller: a whole message is accepted in the end, a truncated one
  leaves the caller waiting for bytes and not the parser for nothing; a head
  that is closed stays as it is;
- further values: the answer comes from the live buffer and from the line asked for;
- reference parser: the same grammar, fields and bounds.

`PROJECT.json` lists the components, the lines each definition stands for, and
the hazards with the properties that cover them.

## 2. The modules

    HttpToken              character classes
      HttpHeader           lookup, slots, list             (EXTENDS HttpToken)
        HttpParser         parser, lifecycle, caller       (EXTENDS HttpHeader)
          HttpChecks       results against the bytes       (EXTENDS HttpParser, INSTANCE HttpMessage)
            MCHttpParser, MCEveryRequest                   instances for TLC (with MCText)
            HttpClient     a buffer that moves, questions  (EXTENDS HttpChecks)
              MCHttpClient
              HttpClientProofs                             (EXTENDS HttpClient, HttpReadingProofs)
            HttpHeaderTable  the code's own 93 rows        (EXTENDS HttpChecks, MCText)
              MCHttpHeaderTable
          HttpParserProofs                                 (EXTENDS HttpParser, HeaderStoreProofs)
            HttpReadingProofs  first line and headers      (EXTENDS HttpParserProofs, HttpHeaderTable)
              HttpMessageProofs                            (EXTENDS HttpReadingProofs, INSTANCE GrammarProofs)
        CosmoParser        the reference parser            (EXTENDS HttpHeader)
          CosmoChecks      held against the same           (INSTANCE HttpMessage, INSTANCE HttpChecks)
            CosmoProofs    its bounds                      (EXTENDS CosmoChecks, HeaderStoreProofs)
              CosmoReadingProofs  fields and answers       (EXTENDS CosmoProofs, INSTANCE GrammarProofs)
            MCCosmoParser
        HeaderStoreProofs  lemmas on lookup and store      (EXTENDS HttpHeader, TLAPS)
    HttpMessage            the abstract specification      (EXTENDS HttpToken)
      GrammarProofs        its heads from left to right    (EXTENDS HttpMessage, TLAPS)

**HttpToken, HttpHeader.** The tables and the functions on the header store as
operators. A known header is named by its row in the lookup's chain of
comparisons; the rows' texts are the constant `Table`. `http_header_lookup` is
"the first row that is a prefix of the input", which is what the chain of
`strncasecmp(row, str, strlen(row))` computes. `xheaders_insert` has a second
test, `count < capacity`, that always holds behind the first (`ListFitsAllocation`
is why), so the model's insertion fails only where `realloc` does.

**HttpParser.** The variables are the fields of `struct http_message` and of its
parser, and three for the environment: the peer's `stream`, how much of it has
been `received` in the buffer, and `pc` (outside a call, inside one, freed).
`method_i` is the length of `method`; `tmp.i`, which no iteration reads before
writing it, is the local value `RTrim`. One iteration of the loop is one action,
`ParseStart` to `ParseLf2`, named for the case of the switch; the fall-through of
`STATE_COLON` into `STATE_VALUE` is the shared operator `ValueByte`. `Continue`,
`Fail` and `Succeed` are the three ways an iteration ends: `break` and the loop's
increment, `return -1` without it, `return ++i`. `Call` is the part before the
loop with its argument checks and clamps, `ReturnUsedUp` the part after it.
`Receive`, `MayCall` are the caller; `Free` and `MsgInit` are `http_msg_free` and
`http_msg_init`. Since the buffer only ever grows by appending, its contents are
the first `received` bytes of `stream`. `failure` is a history variable: it says
why the last -1 was returned, which the code does not tell. The constant
`Retryable` is the caller's policy: the failures after which it calls again, and
`"none"` if it also calls again after an accepted head.

A build with `NDEBUG` goes past `http_msg_init`'s assertion, so a message of
the unknown type may exist; `Call` refuses it, as the code does.

**HttpMessage.** The abstract specification: a grammar of the heads the code
accepts, by lines (`RequestLine`, `StatusLine`, `HeaderLine`, `IsHead`), and a
verdict that goes once from open to a length or to "no prefix is a head". It
knows nothing of states, calls and fragments. It describes the code, leniencies
included: LF for CR LF, a space after a request's version, CR or LF after a
response's version, leading zeros in a status. The longest method and the
versions are constants, in which the two parsers differ.

**HttpChecks.** The refinement mapping (`Verdict`), a second, one-pass reading of
the bytes that says what each field should be, and the statements of comments
that the code does not keep.

**HttpClient.** A program around `HttpParser` that asks for further headers. A
block of memory stands for the buffer's address; `input` is
`msg->parser.args.input`, which `ClientCall` sets only if the call gets past its
argument checks, and `Move` enlarges the buffer into another block, perhaps one it
was in before. `http_header_get_xheader_value` searches the list and copies a
slice (`http_slice_new`, with a `malloc` that may fail); through a pointer to a
block the caller has left, it answers anything. `moved` is a history variable: no
call has returned 0 or a length since the last move.

**HttpHeaderTable.** The rows of `http_header_lookup` with the length written
beside each, and the set of `http_header_is_repeatable`, whole. A row is
compared over its length, not over its text: one too large takes in the NUL and
never matches. What it computes is the `Table` and `Repeatable` that the parser
is then run with.

**CosmoParser, CosmoChecks.** The reference parser, whose states are the same and
whose loops are not: six cases read a run of bytes in a loop of their own, and
`if (++r->i == n) break;` leaves that loop with the index at the end of the
call's bytes, where the outer loop increments it once more (`NextOfRun`). One
action is one iteration of the innermost loop. The cursor counts the bits of the
method while it is packed in a 64-bit word; the header is dropped when `realloc`
fails (`lost` counts them); `ResetHttpMessage` keeps the list's allocation. The status is
an `int`: its overflow, which takes repeated calls at a status that is too large, is
undefined, and the check that follows may be of the wrapped value or of the true one
(`StatusDigit`). The table of known headers is a constant, as for uurl. A slot is
read as empty by its start offset being zero, as in uurl. `CosmoChecks` instantiates
`HttpMessage` with methods of eight characters and versions of any two digits, and
`HttpChecks` with the reference parser's variables in the place of uurl's. `Spec` has
any caller; `LineSpec` has one that the bytes reach line by line (the last line
perhaps unfinished) and that resets the message between two of them.

**MC modules.** They choose the streams and tables, and restrict the arrivals
where a run says so (`WholeSpec`).

## 3. What is checked

The passing runs, with TLC on two workers:

| Run | Distinct states | Question |
|---|---|---|
| `parse_message` | 139 200 | forty-one messages as requests, responses and of unknown type, under every cutting, failing allocations, three capacities, message after message |
| `every_request` | 111 300 | every request made of a few pieces, whole in one call |
| `call_again` | 98 900 | a caller that calls again whatever it was answered |
| `progress` | 1 870 | liveness under fairness, with buffers that are too small first |
| `ask_client` | 377 500 | a caller that moves its buffer and asks for further headers |
| `known_headers` | 4 450 | each of the 93 known headers twice in a message; messages of the tests |
| `cosmo_by_line` | 17 100 | the reference parser's answers and fields, arrivals by line |
| `cosmo_any_order` | 67 000 | the reference parser's bounds in any cutting and any order of its functions |

Of uurl's parser:

- `TypeOK`: types; above all that the method keeps room for its NUL
  (`parser.method_i` "should never exceed" 7, says `http.h`).
- `WithinInput`: the index stays in the call's bytes, the call's bytes are
  received ones, and the cursor has been caught up with whenever an iteration
  or a call begins.
- `SlicesInInput`: recorded slices are ordered intervals of parsed bytes,
  16 bits notwithstanding; a URI is not empty.
- `ListFitsAllocation`: entries against capacity and allocation.
- `FieldsClean`: "guarantees no C0 or C1 control codes are present in message
  fields, with the exception of tab".
- `FirstLineIsAsSent`, `HeadersAreAsSent`: the fields are those the bytes spell,
  at every moment, not only at the end; each header line is in its slot or in
  the list, in order, once.
- `RecordedIsKept` (action property): what is recorded is not rewritten by later
  bytes, calls, failures, retries.
- `SyntaxErrorIsFinal` (temporal): after a malformed byte every later call fails, for
  that byte or for its arguments, until the next `http_msg_init`. Two bytes are excepted
  (`Malformed`) because there it is false: a space where the method should begin (the
  state is already METHOD when it is refused, so a retry takes it for the end of an
  empty method), and a digit that makes the status too large (the status stays in
  `msg->status`, and is multiplied by ten again at each retry, until its 32 bits wrap).
- `StatusHasThreeDigits`: what is true of that second exception. Past the status, a
  response's status is from 100 to 999, also when it got there by wrapping. It need not
  be the one that was sent: `FirstLineIsAsSent` is of callers that do not retry there.
- `ClosedHeadIsFinal` (action property): once a head that ended in an empty line
  of CR LF has been accepted, no further call and no byte behind it changes a
  field, in `STATE_LF2`, which has no way back. Of a head that ended in a single
  LF it is false: the state is `STATE_LF1`, and the body's lines are taken for
  headers.
- `ImplementsMessage`: the parser implements `HttpMessage` under `Verdict`.
- `EventuallyAccepted`, `EventuallyAnswered`: liveness, below.

Of its tables and its caller:

- `NamesReachTheirSlots`: each known header but the seven that a row before them
  hides is in the slot of its own name, with the first or the last value as it is
  repeatable or not. It rests on `RowsAreRight`, which has no variables and which TLC
  evaluates as an assumption of the run's module: each row is compared over the length
  of its name, and no name but seven begins with that of a row before it.
- `AnswersReadTheBuffer`: a caller that asks with its buffer where it was when a
  call last returned 0 or a length has the pointer it needs, though calls that
  failed, some before they stored the pointer, may lie between.
- `AnswerIsAsSent`: the answer is the value of the first line of that name in the
  list, or NULL; provided no line before it has a name that the asked name begins
  with, since the comparison is over the length of the stored name.

Of the reference parser:

- `ReferenceImplementsMessage`, `ReferenceFirstLineIsAsSent`: the same grammar and the
  same reading of the bytes.
- `ReferenceHeadersAreAsSent`: the slots and the list are what the lines spell, but for
  as many of the listed lines as allocations have failed, which are missing as if they
  had not been sent; and nothing of the message before a reset is left.
- `ReferenceStaysInInput`, `ReferenceListFits`: the bounds of index, cursor,
  method, slices and list, which hold even where bytes are skipped.

Four runs expect a violation, each of a statement in the repository's comments:

- `shadowed_header`: "If r->headers[kHttpFoo].a is zero then the header is
  totally absent". `Accept-Language` and `Accept-Encoding` come behind `Accept` in
  the chain of prefix comparisons, so no line can ever reach their slots.
- `version_then_space`: "We only enter this state [LF1] after we received a CR
  and a LF". A request's version may be ended by a space too, and then
  what is left of the line is read as header lines. In the run's stream that is CR LF,
  so that the head ends there and the header line behind it is not read.
- `spanning_lost`: headers that "may span lines" and, "e.g. Cookie", are kept
  line by line because "we simply don't add them to the perfect hash table". uurl's
  lookup has a row for Cookie, so the second line overwrites the first.
- `cosmo_fragments`: "State persists across calls so that fragmented messages can
  be handled efficiently". A cut inside a method, URI, status, reason, name or value
  makes the reference parser skip the byte at the cut.

Four more disagreements met on the way have no run of their own. `http.h:168`
says the cursor "should be initialized to zero on every call"; it is not, and must
not be, since a part that a call's end cuts is sliced from it: the comment is wrong.
`Fromage: b` is taken for `From` (the lookup's comparison is of a prefix), which
`known_headers` has among its messages and `HeadersAreAsSent` describes.
`Access-Control-Request-Methods` is in the repeatable set (`http_header.c:90`) but
its row is hidden by `Access-Control-Request-Method`, which is not. The reference
parser's lookup compares `Access-Control-RequestHeaders` (`gethttpheader.c:113`) where
uurl's has `Access-Control-Request-Headers` (`http_header.c:179`), so it lists that
header as unknown; no run gives the reference parser that row.

Each property of a passing run is listed with a mutant of a mapped definition
(the `...Slip` operators: a dropped bound, a missing clamp, an unchecked LF, a
doubling from zero) that TLC finds to break it.

### Bounds

- *Messages.* The streams are given by the configuration, since all byte strings
  of a useful length are out of reach. Those of `parse_message` were chosen to
  take every case of the switch through each of its exits, and each is parsed as
  a request and as a response; `every_request` guards against what nobody thought
  of, with every string of up to four pieces, up to five behind an HTTP/0.9 first
  line, four behind a first header and four where a version is expected.
- *Fragments.* `Chunks = {1, 2}`: any cut is a sum of them. `every_request` and
  `known_headers` use one call, as the other runs show that cuts do not matter to
  the verdict. `cosmo_by_line` has bytes arrive by whole lines, since cuts inside
  a line are what the reference parser gets wrong; `cosmo_any_order` has any.
- *Capacities.* `progress` has 4, 8 and 40 against streams of up to 15 bytes: at 4 and 8
  a call fails for its arguments or for a full buffer, and acceptance takes resuming with
  40. `call_again` has 12 and 39, so that a call that fails for its arguments or for room
  may come between a malformed byte and the next look at it.
- *Widths.* `SHRT_MAX` is 39, `UINT16` one more, the tightest value the
  assumption allows (the code has 2^15 - 1 and 2^16). The two act the same as
  long as the streams straddle the limit, which two of `parse_message` do, and the
  capacities too: 24 is below it, 39 at it, 41 above it. `every_request` has 63 and
  `known_headers` 255, to hold their messages. `UINT32 = 20000` is above ten times
  999 plus 9, so a status is wrong for the code's reason (too large) and wraps only
  after retries. For the reference parser's signed status it is above twice that. A
  status line `HTTP/1.1 1003` wraps on the second retry to 333, and on the first to a
  negative number where it is signed.
- *Table.* Five rows in their order in the code, with a shadowed one and three
  that are repeatable; `every_request` has two of its own, one a prefix of the
  other, so that one letter makes a header; `known_headers` has all.
- *Blocks.* Two: the buffer has left a block, and may come back to it.
- *Allocation* may fail at every growth, any number of times.
- `CHECK_DEADLOCK FALSE` where a run follows one message only (`every_request`,
  `known_headers`, `call_again`, `progress` and the violations): a caller that has its answer, or
  has nothing more to receive, stops. The others go on with the next message, and
  check for deadlock.

### Fairness

`FairSpec` follows one message. A call runs to its end (weak fairness of the
loop: it is a `for` loop in a single thread). That the caller calls again, with
its largest buffer time and again, and that the bytes keep arriving is the
environment's part: strong fairness, since both are disabled while a call runs.
That a step that may allocate does not fail every time is strong too. None of it
says which capacity is tried first or how often an allocation fails. Under it
`EventuallyAccepted` says that a message with a head is accepted, and
`EventuallyAnswered` that every stream is accepted, rejected, or looked at to its
last byte.

## 4. What is proved

For every table without a colon in its texts, every set of streams, capacities
and fragment sizes, any retry policy but where the table says otherwise, and any widths with
`SHRT_MAX < UINT16` and `10 * 999 + 9 < UINT32`, twice that for the reference parser
(the modules' `ASSUME`s: those of the code are 2^15 - 1, 2^16 and 2^32):

| Theorem | Statement |
|---|---|
| `TypeCorrect` | `Spec => []TypeOK` |
| `StaysWithinInput` | `Spec => []WithinInput` |
| `HeaderListFits` | `Spec => []ListFitsAllocation` |
| `SlicesStayInInput` | `Spec => []SlicesInInput` |
| `RecordsAreKept` | `Spec => RecordedIsKept` |
| `FieldsStayClean` | `Spec => []FieldsClean` |
| `SyntaxErrorsAreFinal` | `MessageSpec => SyntaxErrorIsFinal` |
| `StatusIsInRange` | `Spec => []StatusHasThreeDigits` |
| `FirstLineIsCorrect` | `Spec => []FirstLineIsAsSent`, if `"syntax"` is not in `Retryable` or no responses are parsed |
| `HeadersAreCorrect` | `Spec => []HeadersAreAsSent` |
| `HeadersReachTheirSlots` | `Spec => []NamesReachTheirSlots`, with the code's own rows, if `RowsAreRight` |
| `ParserImplementsMessage` | `Spec => ImplementsMessage`, if neither `"syntax"` nor `"none"` is in `Retryable` |
| `ClosedHeadStays` | `Spec => ClosedHeadIsFinal` |
| `AnswersStayInBuffer` | `ClientSpec => []AnswersReadTheBuffer` |
| `AnswersAreCorrect` | `ClientSpec => []AnswerIsAsSent` |
| `ReferenceIsInBounds` | `Spec => []ReferenceStaysInInput` (of `CosmoParser`) |
| `ReferenceListIsInBounds` | `Spec => []ReferenceListFits` (of `CosmoParser`) |
| `ReferenceFirstLineIsCorrect` | `LineSpec => []ReferenceFirstLineIsAsSent`, if `"syntax"` is not in `Retryable` or no responses are parsed |
| `ReferenceHeadersAreCorrect` | `LineSpec => []ReferenceHeadersAreAsSent` |
| `ReferenceImplements` | `LineSpec => ReferenceImplementsMessage`, if `"syntax"` is not in `Retryable` |

The argument. `TypeOK` alone is not inductive: that a byte read is a byte, and an
index at most `SHRT_MAX`, needs `i <= args.size <= received`; and `WithinInput`
needs the types. `IInv`, their conjunction, is inductive, with one lemma per case
of the switch. The cursor's look-ahead is harmless because the iteration that
sets it to `i + 1` also increments `i`. For the slices, `SlicesInv` adds what
holds of the name that is still pending (its order relative to the index, by
state). `FieldsClean` needs to know of the bytes that are not yet in any slice:
`PendingClean` says that those between the cursor (or the name's start) and the
index have the class the state tests for. `RecordedIsKept` needs
`NotYetRecorded`: the URI and the reason are still empty in the states that
record them, so recording them rewrites nothing. `ListFitsAllocation` is
inductive as it stands, given the types. `SyntaxErrorIsFinal` needs to know what a
failed call leaves behind: `StuckInv` says that the index is still at a byte of the
call and that the state refuses that byte (`Refused`, by state), which later
arrivals and calls do not change, as the next call's input is at least as long; and an
iteration at a refused byte leaves it refused. So `Barred` (the last answer is one of the
two failures, at a refused byte of the call) is kept by every step of `MessageSpec`, which
follows one message. `StatusHasThreeDigits` needs that in `STATUS` the status is at most 999 or
the byte at the index is still the digit that made it too large, at which it cannot be
ended (`StatusInv`).

`FirstLineIsAsSent` compares the fields with a reading of the bytes that is made
anew at each state. `FirstLineInv` says, by state, how far that reading has got:
where the blank lines ended, that the method is the bytes since then, where the
URI, the version, the status and the reason began (each the byte behind the one
that ended the part before), and that the bytes since have not ended it; and for
the states behind the first line, where its parts ended, with witnesses that no
later step touches. The first of these reaches the reading's own
operators, `FirstOf` and `Lead`, through two lemmas that say when a given offset is
the one they name; they depend on `i`, which grows, and not on what lies behind the
first line. Of the two places where a caller that calls again after a malformed byte
gets past it, one does no harm to the fields: in `METHOD` with nothing recorded
(`NoMethod`) a retry can only read the method from its first byte, or end it there.
The other does: a status too large is multiplied by ten once more. So
`FirstLineRead(kept)` has the status only if it is `kept`: if the caller does not
retry, or parses no responses. The theorem has that hypothesis, and is false without it.

`HeadersAreAsSent` reads all lines anew at each state, too. `HeadersRead` has them as
data: where the first line ended; of each line whose end has been read its name and
its value, which no later byte changes (`LineIs`, `LineStays`); by state, how much
has been read of the line that is open (`LineState`), which begins behind all of
them; and that the store holds the lines (`Holding`). The step is then about one
more line behind a set of them, with nothing of bytes in it: if its row is not listed,
the slot holds the set's new minimum or maximum (`SlotHolds`), and if it is, the
list's length and every entry's position are cardinalities of the listed lines,
which grow by the last (`ListHolds`). Whether the code finds a slot taken is
whether the row has had a line (`SpillsIf`), because no value begins at offset 0. An
iteration that fails, for want of memory or for the byte, leaves what
`LineState` says of its state true, and where the first line ended does not depend on
the status, so the theorem has no hypothesis on the caller.

`NamesReachTheirSlots` follows for the code's table. A line of a header's name is
taken for that header if no row before it begins the name (`LookupFinds`; a row has no
colon, so that none reaches past the name), and lines taken for it begin with its
name (`LookupBegins`), so that what the slot holds is the first or last of the lines
the property speaks of. `Table = HeaderTable` and `Repeatable = RepeatableRows` are how
`known_headers` sets the constants, and `RowsAreRight` is an assumption of that run's
module, with no constant in it that another run could set; the prover has no characters
of strings.

`ImplementsMessage` is about whole heads, of which the parser has read a part.
`GrammarProofs`, which knows the grammar and neither parser, has, for each state, a predicate of what is left to be read:
`RestOfUri(c, p, n)` says that the bytes from `p` on complete a head of `n` bytes if
the parser is at `p` in a URI that began at `c`. `GrammarInv` is that, for every
`n`, the first `n` bytes are a head exactly if the state's predicate holds of `n`. At the
beginning that is the grammar itself (`HeadIsRest`, for which its parts are first
put in terms of first bytes, and the line starts of `IsHead` are unfolded one line at
a time in `HeadersUnfold`). One lemma per state says how a byte turns one predicate
into the next (`UriSteps` and its like): a byte the parser goes on with keeps the
same `n`, one it refuses leaves none, and the last LF leaves the one behind it.
So a refused byte refutes every reading, not only the one that was tried. A
failure for want of memory or room leaves the predicate of its state true, which is why
a retry is harmless. A status is the one place where the code decides by a value
and the grammar by the digits; `StatusShape` bridges them, with what
`FirstLineInv` says of the value. The hypotheses are needed: after a malformed byte
a second call may accept (`SyntaxErrorIsFinal`'s exceptions), and after an accepted
head it parses on, in the state the head ended in, and may reject.

`ClosedHeadIsFinal` is about bytes behind a head, where the same predicates say more.
`ClosedInv` is that for every `n` whose first bytes are a head that ends in CR LF, the
parser is still on the way to it (no malformed byte yet, and `GrammarRead` with
what is left of the head in front of the index, `EndIsAhead`), or it is in `LF2` and
past it, where no byte changes a field. The way leads there because the head's last
byte is read in `LF1` or `LF2`, and in `LF1` only if the byte before it is no CR: that
is the one extra fact, the second conjunct (`ByteLf1`). Since a caller may call again
after any answer, the invariant says nothing of what was answered but while a call runs.

`AnswersReadTheBuffer` needs that the list is empty before any call has passed its
checks (`input` is null only then), and that inside a call the pointer is the
buffer's. For `AnswerIsAsSent`, `AnswerInv` says that the question just asked would be
answered the same now; then `HeadersAreAsSent` says what the list holds. It places
the line `k` at the number of listed lines not behind it, and the lookup takes the
first entry that matches: `Ranks` (every entry is some line's, and an earlier line's is
before a later one's) and `FirstMatch` turn the least entry into the least line, and
`MatchesBegun` the comparison over the stored name's length into "begins".

The reference parser's index is no bound on what it has sliced: a run of bytes that
meets the end of the call leaves it one past the end, where the next call goes on.
Its slices are bounded by `Reached`, the index without that overrun, which grows with
the index and with the bytes of a call (`CallBounds`). `BoundsInv` has, besides, that
the cursor is a count of bits in `METHOD` and an offset at most the index in every
other state, and where the pending name lies. Every slice is ended inside an
iteration, where the index is an offset and equal to `Reached`. The value's end is
the one `RTrim` chooses, which exists because the value's start is one of the
candidates (`Trimmed`, by the least number principle). `ReferenceListFits` is
inductive, given the types; a reset keeps the capacity and the allocation together.

That overrun is why the reference parser's fields are right only for a caller that hands
over whole lines, and why they are. `Lined` says that the bytes of a call end in a line
feed, or that none will be looked at behind them: all of the stream has arrived, or
`SHRT_MAX` bytes have. A line feed ends every run of bytes, so the index runs past the
end of a call only in the second case, where nothing is left to be skipped. Hence each
iteration is at the byte at `Reached`, and either reads it, and `Reached` grows by one,
or refuses it (`IterationReads`); a call and an arrival leave `Reached` alone
(`CallReads`, `StepReads`). With `Reached` in the place of uurl's index, the invariants
of uurl's fields become those of the reference parser's: `FirstLineRead(kept)`, where the
version is any two digits and a method has its first byte when the state is `METHOD`; and
`HeadersRead`, where the store holds all lines but `lost` of the listed ones (`AllButLost`):
the set of dropped lines grows by the line whose allocation failed (`AllButLostGrows`). The lemmas on the store itself,
in `HeaderStoreProofs`, are about sets of lines and serve both parsers. The first theorem
needs its hypothesis for the reason that uurl's does. The second has none on what the
caller does after an error, and holds of a response whose status is wrong by then.

`ReferenceImplementsMessage` takes `GrammarProofs` with the other grammar: methods of up to
eight characters, versions of any two digits. The measure is `Reached` again: for
every `n`, the first `n` bytes are a head exactly if the state's predicate holds of
`n` from `Reached` on, and an iteration reads that byte, which ends in the next state's
predicate, in the head, or in none (`ByteGrammar`, one lemma per action). Within a state
the two parsers differ, and the lemmas with them: the method is gathered in a word of
64 bits, so that the cursor counts its characters eight by eight; and a version may be
any two digits, so that `VersionsAgree` relates single bytes where uurl compares with three
texts. The hypothesis is needed for the reason uurl's is. `CosmoParser`'s caller never
parses on behind an accepted head (that failure is not among those it may retry), but resets and
goes on with another stream, of which nothing has been read (`NewGrammar`).

Only model-checked: `RowsAreRight` (about one table of constants, which TLC evaluates in
full), and the liveness properties (temporal reasoning with fairness and ENABLED is beyond
the prover that is used).

## 5. What is not modelled

- *Debug output* (`debug.h`, the `DEBUG` lines of the parser), the build scripts
  and the tests' own code: no state of the library.
- *`parsehttpmessage.annotated.c`*: compiled by no build and called by nothing; it
  is the reference parser, statement for statement, with its fields renamed. Its
  comments are used as statements about the states.
- *`stubs.c` and `serialize.h`*: functions that return a constant, and macros for
  byte order; what the reference parser uses of the latter is in `IsVersion`.
- *The bytes of a buffer that was left*: the model says only that anything may be
  read there.
- *`size_t` inputs above 2^32*: the clamp to `SHRT_MAX` is made in `size_t`,
  before anything is cut.
