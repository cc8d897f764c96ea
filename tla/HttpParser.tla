----------------------------- MODULE HttpParser ------------------------------
(***************************************************************************)
(* The incremental HTTP message parser of uurl/http_parse.c and the        *)
(* program that calls it.                                                  *)
(*                                                                         *)
(* The bytes the peer sends arrive piecemeal in the caller's buffer.  The  *)
(* caller hands all it has received to http_msg_parse, over and over, and  *)
(* the parser's state persists in struct http_message from one call to the *)
(* next.  One action is one iteration of the parser's loop, named for the  *)
(* case of its switch; a call, its return, an arrival of bytes, and the    *)
(* initialisation and release of the message are actions of their own.     *)
(*                                                                         *)
(* Offsets are the code's, counted from 0; the byte at offset k is At(k).  *)
(***************************************************************************)
EXTENDS HttpHeader

CONSTANTS
  Streams,      \* the byte sequences the peer may send
  Types,        \* the message types http_msg_init is called with
  Chunks,       \* how many bytes may arrive at a time
  Capacities,   \* the buffer capacities the caller may state
  Retryable,    \* the failures after which the caller calls again; "none" is
                \* in it if the caller also calls again after a whole head
  SHRT_MAX,     \* the longest message that is looked at: 2^15 - 1 in the code
  UINT32        \* how many values a uint32_t has: 2^32 in the code

HTTP_METHOD_MAX_STRLEN == 7
HTTP_STATUS_MIN == 100
HTTP_STATUS_MAX == 999

\* enum http_message_types and enum http_versions
REQUEST  == "REQUEST"
RESPONSE == "RESPONSE"
UNKNOWN_TYPE == "UNKNOWN"
V_UNKNOWN == "UNKNOWN"
V0_9 == "0.9"
V1_0 == "1.0"
V1_1 == "1.1"

\* Why a call returned -1.  The code returns the same -1 for all of them.
Failures == {"arguments", "full", "memory", "syntax"}

ASSUME StreamsAssumption == Streams \subseteq Seq(Byte)

ASSUME CallerAssumption ==
  /\ Types \subseteq {REQUEST, RESPONSE, UNKNOWN_TYPE}
  /\ Chunks \subseteq Nat \ {0}
  /\ Capacities \subseteq Nat
  /\ Retryable \subseteq Failures \cup {"none"}

ASSUME WidthAssumption ==
  /\ SHRT_MAX \in Nat \ {0}
  /\ SHRT_MAX < UINT16
  /\ UINT32 \in Nat
  /\ UINT32 > 10 * HTTP_STATUS_MAX + 9

VARIABLES
  stream,    \* the bytes the peer sends for this message
  received,  \* how many of them are in the caller's buffer
  type,      \* msg->type
  state,     \* msg->parser.state
  i,         \* msg->parser.i
  cursor,    \* msg->parser.cursor
  method,    \* msg->method up to its NUL; parser.method_i is its length
  name,      \* msg->parser.tmp.header
  line,      \* msg->uri, version, status and message
  store,     \* msg->headers and msg->xheaders
  args,      \* msg->parser.args of the last call
  pc,        \* "idle", "loop" inside http_msg_parse, "freed"
  ret,       \* what the last call returned, 0 while a call is running
  failure    \* why the last return was -1, until the parser gets on or returns 0

peer   == <<stream, received>>
parser == <<state, i, cursor, method, name, line, store>>
vars   == <<peer, type, parser, args, pc, ret, failure>>

States == {"START", "METHOD", "URI", "VERSION", "STATUS", "MESSAGE", "NAME",
           "COLON", "VALUE", "CR", "LF1", "LF2"}

Lines == [uri : Slices, version : {V_UNKNOWN, V0_9, V1_0, V1_1},
          status : 0..(UINT32 - 1), message : Slices]

\* memset leaves msg->version at 0, which is HTTP_VERSION_0_9.
NoLine == [uri |-> NoSlice, version |-> V0_9, status |-> 0,
           message |-> NoSlice]

-----------------------------------------------------------------------------
(* The bytes *)

At(k) == stream[k + 1]

Ch == At(i)     \* get_current_char, and parser.ch as the loop sets it

\* set_tmp_i_to_input_rtrim: the end of the value [from, to) without the
\* blanks it ends in; an all-blank value is trimmed down to from.
\* (Slip: the trimming does not stop at the cursor.)
RTrimSlip(from, to) ==
  CHOOSE t \in 1..to :
    /\ \A k \in t..(to - 1) : IsHtabOrSpace(At(k))
    /\ ~IsHtabOrSpace(At(t - 1))

RTrim(from, to) ==
  CHOOSE t \in from..to :
    /\ \A k \in t..(to - 1) : IsHtabOrSpace(At(k))
    /\ t = from \/ ~IsHtabOrSpace(At(t - 1))

\* "HTTP/x.y", the only three texts parse_version knows
VersionText(major, minor) == <<72, 84, 84, 80, 47, major, 46, minor>>

parse_version(from, to) ==
  LET text == SubSeq(stream, from + 1, to)
  IN  CASE text = VersionText(48, 57) -> V0_9
        [] text = VersionText(49, 48) -> V1_0
        [] text = VersionText(49, 49) -> V1_1
        [] OTHER -> V_UNKNOWN

\* The status after one more digit, in the 32 bits of msg->status
Appended(status, c) == (status * 10 + (c - 48)) % UINT32

\* args.input_size and args.input_capacity
Clamp(n) == IF n > SHRT_MAX THEN SHRT_MAX ELSE n

\* parser.i + 1, where the cursor goes when a SP ends a part of the first line
\* (Slip: the cursor is left at the SP.)
NextOffsetSlip == i
NextOffset == i + 1

-----------------------------------------------------------------------------
(* How an iteration of the loop ends *)

\* break: go round the loop again, ++parser.i
Continue(s) ==
  /\ state' = s
  /\ i' = i + 1
  /\ failure' = "none"
  /\ UNCHANGED <<pc, ret>>

\* return -1 with parser.i still at the offending byte
\* (Slip: a return -1 that goes through the loop's increment.)
FailSlip(s, why) ==
  /\ state' = s
  /\ ret' = -1
  /\ failure' = why
  /\ pc' = "idle"
  /\ i' = i + 1

Fail(s, why) ==
  /\ state' = s
  /\ ret' = -1
  /\ failure' = why
  /\ pc' = "idle"
  /\ UNCHANGED i

\* return ++parser.i
\* (Slip: the state is reset, and a pipelined message is read into this one.)
SucceedSlip ==
  /\ i' = i + 1
  /\ ret' = i + 1
  /\ pc' = "idle"
  /\ failure' = "none"
  /\ state' = "START"

Succeed ==
  /\ i' = i + 1
  /\ ret' = i + 1
  /\ pc' = "idle"
  /\ failure' = "none"
  /\ UNCHANGED state

\* parser.ch == '\r' ? STATE_CR : STATE_LF1
\* (Slips: the LF that must follow a CR is not asked for; a single LF does not
\* end a line.)
EndOfLineBareCrSlip == "LF1"
EndOfLineCrLfSlip == "CR"
EndOfLine == IF Ch = CR THEN "CR" ELSE "LF1"

\* The condition of the loop
\* (Slips: the byte after the last is looked at, or the last is not.)
BytesLeftOverSlip  == i <= args.size /\ i < Len(stream)
BytesLeftShortSlip == i + 1 < args.size
BytesLeft == i < args.size

Reading(s) ==
  /\ pc = "loop"
  /\ BytesLeft
  /\ state = s

Outside == <<peer, type, args>>

-----------------------------------------------------------------------------
(* The cases of the switch *)

\* insert_method_char and the break or return -1 that follows it
\* (Slip: the bound is checked after the byte is written.)
InsertMethodCharSlip ==
  IF Len(method) <= HTTP_METHOD_MAX_STRLEN /\ IsToken(Ch)
    THEN /\ method' = Append(method, Upper(Ch))
         /\ Continue("METHOD")
    ELSE /\ Fail("METHOD", "syntax")
         /\ UNCHANGED method

InsertMethodChar ==
  IF Len(method) # HTTP_METHOD_MAX_STRLEN /\ IsToken(Ch)
    THEN /\ method' = Append(method, Upper(Ch))
         /\ Continue("METHOD")
    ELSE /\ Fail("METHOD", "syntax")
         /\ UNCHANGED method

ParseStart ==
  /\ Reading("START")
  /\ \/ /\ IsCrlf(Ch)
        /\ Continue("START")
        /\ UNCHANGED <<cursor, method>>
     \/ /\ ~IsCrlf(Ch)
        /\ cursor' = i
        /\ \/ /\ type = REQUEST
              /\ InsertMethodChar
           \/ /\ type # REQUEST
              /\ Continue("VERSION")
              /\ UNCHANGED method
  /\ UNCHANGED <<name, line, store, Outside>>

ParseMethod ==
  /\ Reading("METHOD")
  /\ \/ /\ Ch = SP
        /\ cursor' = NextOffset
        /\ Continue("URI")
        /\ UNCHANGED method
     \/ /\ Ch # SP
        /\ InsertMethodChar
        /\ UNCHANGED cursor
  /\ UNCHANGED <<name, line, store, Outside>>

ParseUri ==
  /\ Reading("URI")
  /\ \/ /\ IsCrlfOrSpace(Ch)
        /\ i = cursor
        /\ Fail("URI", "syntax")
        /\ UNCHANGED <<cursor, line>>
     \/ /\ Ch = SP
        /\ i # cursor
        /\ line' = [line EXCEPT !.uri = Slice(cursor, i)]
        /\ cursor' = NextOffset
        /\ Continue("VERSION")
     \/ /\ IsCrlf(Ch)
        /\ i # cursor
        /\ line' = [line EXCEPT !.uri = Slice(cursor, i), !.version = V0_9]
        /\ Continue(EndOfLine)
        /\ UNCHANGED cursor
     \/ /\ ~IsCrlfOrSpace(Ch)
        /\ IF IsIso8859_1(Ch) THEN Continue("URI") ELSE Fail("URI", "syntax")
        /\ UNCHANGED <<cursor, line>>
  /\ UNCHANGED <<method, name, store, Outside>>

\* A request's version may be ended by a space too, after which a header's
\* name is expected on the same line; a response's by any of the three.
ParseVersion ==
  /\ Reading("VERSION")
  /\ LET version == parse_version(cursor, i)
     IN  \/ /\ ~IsCrlfOrSpace(Ch)
            /\ Continue("VERSION")
            /\ UNCHANGED line
         \/ /\ IsCrlfOrSpace(Ch)
            /\ version = V_UNKNOWN
            /\ Fail("VERSION", "syntax")
            /\ UNCHANGED line
         \/ /\ IsCrlfOrSpace(Ch)
            /\ version # V_UNKNOWN
            /\ line' = [line EXCEPT !.version = version]
            /\ Continue(IF type = REQUEST THEN EndOfLine ELSE "STATUS")
  /\ UNCHANGED <<cursor, method, name, store, Outside>>

\* status_append, in which the too large status stays in msg->status
AppendToStatus ==
  LET status == Appended(line.status, Ch)
  IN  \/ /\ ~IsDigit(Ch)
         /\ Fail("STATUS", "syntax")
         /\ UNCHANGED line
      \/ /\ IsDigit(Ch)
         /\ line' = [line EXCEPT !.status = status]
         /\ IF status > HTTP_STATUS_MAX
              THEN Fail("STATUS", "syntax")
              ELSE Continue("STATUS")

ParseStatus ==
  /\ Reading("STATUS")
  /\ \/ /\ IsCrlfOrSpace(Ch)
        /\ line.status < HTTP_STATUS_MIN
        /\ Fail("STATUS", "syntax")
        /\ UNCHANGED <<cursor, line>>
     \/ /\ Ch = SP
        /\ line.status >= HTTP_STATUS_MIN
        /\ cursor' = NextOffset
        /\ Continue("MESSAGE")
        /\ UNCHANGED line
     \/ /\ IsCrlf(Ch)
        /\ line.status >= HTTP_STATUS_MIN
        /\ Continue(EndOfLine)
        /\ UNCHANGED <<cursor, line>>
     \/ /\ ~IsCrlfOrSpace(Ch)
        /\ AppendToStatus
        /\ UNCHANGED cursor
  /\ UNCHANGED <<method, name, store, Outside>>

ParseMessage ==
  /\ Reading("MESSAGE")
  /\ \/ /\ IsCrlf(Ch)
        /\ line' = [line EXCEPT !.message = Slice(cursor, i)]
        /\ Continue(EndOfLine)
     \/ /\ ~IsCrlf(Ch)
        /\ IF IsIso8859_1(Ch) THEN Continue("MESSAGE")
                              ELSE Fail("MESSAGE", "syntax")
        /\ UNCHANGED line
  /\ UNCHANGED <<cursor, method, name, store, Outside>>

ParseCr ==
  /\ Reading("CR")
  /\ IF Ch = LF THEN Continue("LF1") ELSE Fail("CR", "syntax")
  /\ UNCHANGED <<cursor, method, name, line, store, Outside>>

ParseLf1 ==
  /\ Reading("LF1")
  /\ \/ /\ Ch = CR
        /\ Continue("LF2")
        /\ UNCHANGED name
     \/ /\ Ch = LF
        /\ Succeed
        /\ UNCHANGED name
     \/ /\ IsToken(Ch)
        /\ name' = [name EXCEPT !.start = U16(i)]
        /\ Continue("NAME")
     \/ /\ ~IsCrlf(Ch)
        /\ ~IsToken(Ch)
        /\ Fail("LF1", "syntax")
        /\ UNCHANGED name
  /\ UNCHANGED <<cursor, method, line, store, Outside>>

ParseName ==
  /\ Reading("NAME")
  /\ \/ /\ Ch = COLON
        /\ name' = [name EXCEPT !.end = U16(i)]
        /\ Continue("COLON")
     \/ /\ Ch # COLON
        /\ IF IsToken(Ch) THEN Continue("NAME") ELSE Fail("NAME", "syntax")
        /\ UNCHANGED name
  /\ UNCHANGED <<cursor, method, line, store, Outside>>

\* Insert the header whose value starts at from and ends before offset i.
StoreHeader(from) ==
  LET header == http_header_lookup(stream, name.start)
      value  == Slice(from, RTrim(from, i))
  IN  \/ /\ ~Spills(store, header)
         /\ store' = SetSlot(store, header, value)
         /\ Continue(EndOfLine)
      \/ /\ Spills(store, header)
         /\ store' = xheaders_insert(store, name, value)
         /\ Continue(EndOfLine)
      \/ /\ Spills(store, header)
         /\ MustGrow(store)           \* realloc returns NULL
         /\ Fail("VALUE", "memory")
         /\ UNCHANGED store

\* case STATE_VALUE, the value's start being from
ValueByte(from) ==
  \/ /\ IsCrlf(Ch)
     /\ StoreHeader(from)
  \/ /\ ~IsCrlf(Ch)
     /\ IF Ch = HTAB \/ IsIso8859_1(Ch) THEN Continue("VALUE")
                                        ELSE Fail("VALUE", "syntax")
     /\ UNCHANGED store

\* The first byte that is no blank falls through to case STATE_VALUE.
ParseColon ==
  /\ Reading("COLON")
  /\ \/ /\ IsHtabOrSpace(Ch)
        /\ Continue("COLON")
        /\ UNCHANGED <<cursor, store>>
     \/ /\ ~IsHtabOrSpace(Ch)
        /\ cursor' = i
        /\ ValueByte(i)
  /\ UNCHANGED <<method, name, line, Outside>>

ParseValue ==
  /\ Reading("VALUE")
  /\ ValueByte(cursor)
  /\ UNCHANGED <<cursor, method, name, line, Outside>>

ParseLf2 ==
  /\ Reading("LF2")
  /\ IF Ch = LF THEN Succeed ELSE Fail("LF2", "syntax")
  /\ UNCHANGED <<cursor, method, name, line, store, Outside>>

ParseByte ==
  \/ ParseStart \/ ParseMethod \/ ParseUri \/ ParseVersion \/ ParseStatus
  \/ ParseMessage \/ ParseCr \/ ParseLf1 \/ ParseName \/ ParseColon
  \/ ParseValue \/ ParseLf2

\* The input is used up: ask for more if the buffer has room for more.
\* (Slip: the -1 for a full buffer goes through the loop's increment, so that
\* a call with a larger one resumes behind a byte that was not parsed.)
ReturnUsedUpSlip ==
  /\ pc = "loop"
  /\ ~BytesLeft
  /\ pc' = "idle"
  /\ IF i < args.capacity
       THEN ret' = 0 /\ failure' = "none" /\ UNCHANGED i
       ELSE ret' = -1 /\ failure' = "full" /\ i' = i + 1
  /\ UNCHANGED <<peer, type, state, cursor, method, name, line, store, args>>

ReturnUsedUp ==
  /\ pc = "loop"
  /\ ~BytesLeft
  /\ pc' = "idle"
  /\ IF i < args.capacity
       THEN ret' = 0 /\ failure' = "none"
       ELSE ret' = -1 /\ failure' = "full"
  /\ UNCHANGED <<peer, type, parser, args>>

-----------------------------------------------------------------------------
(* The caller *)

\* The caller goes on until it has a message, and after a failure only if it
\* is one it can do something about.  Nothing in the parser keeps it from
\* calling again after an accepted head, with the state and index it ended in.
MayCall == /\ pc = "idle"
           /\ ret = 0 \/ failure \in Retryable

\* http_msg_parse up to its loop
Call(capacity) ==
  /\ MayCall
  /\ \/ /\ received > capacity \/ type \notin {REQUEST, RESPONSE}
        /\ ret' = -1
        /\ failure' = "arguments"
        /\ UNCHANGED <<args, pc>>
     \/ /\ received <= capacity
        /\ type \in {REQUEST, RESPONSE}
        /\ args' = [size |-> Clamp(received), capacity |-> Clamp(capacity)]
        /\ pc' = "loop"
        /\ ret' = 0
        /\ UNCHANGED failure
  /\ UNCHANGED <<peer, type, parser>>

\* More bytes arrive while no call is running.
Receive(n) ==
  /\ pc = "idle"
  /\ received + n <= Len(stream)
  /\ received' = received + n
  /\ UNCHANGED <<stream, type, parser, args, pc, ret, failure>>

\* http_msg_free; nothing but http_msg_init may follow it.
Free ==
  /\ pc = "idle"
  /\ pc' = "freed"
  /\ store' = Freed(store)
  /\ UNCHANGED <<peer, type, state, i, cursor, method, name, line, args,
                 ret, failure>>

\* http_msg_init, for the next message; a build with NDEBUG goes past the
\* assertion on the type.
MsgInit(t, s) ==
  /\ pc = "freed"
  /\ stream' = s
  /\ received' = 0
  /\ type' = t
  /\ state' = "START"
  /\ i' = 0
  /\ cursor' = 0
  /\ method' = <<>>
  /\ name' = NoSlice
  /\ line' = NoLine
  /\ store' = EmptyStore
  /\ args' = [size |-> 0, capacity |-> 0]
  /\ pc' = "idle"
  /\ ret' = 0
  /\ failure' = "none"

Init ==
  /\ stream \in Streams
  /\ received = 0
  /\ type \in Types
  /\ state = "START"
  /\ i = 0
  /\ cursor = 0
  /\ method = <<>>
  /\ name = NoSlice
  /\ line = NoLine
  /\ store = EmptyStore
  /\ args = [size |-> 0, capacity |-> 0]
  /\ pc = "idle"
  /\ ret = 0
  /\ failure = "none"

\* What happens to one message
MessageNext ==
  \/ ParseByte
  \/ ReturnUsedUp
  \/ \E capacity \in Capacities : Call(capacity)
  \/ \E n \in Chunks : Receive(n)

Next ==
  \/ MessageNext
  \/ Free
  \/ \E t \in Types, s \in Streams : MsgInit(t, s)

Spec == Init /\ [][Next]_vars

\* One message, from its http_msg_init on
MessageSpec == Init /\ [][MessageNext]_vars

(***************************************************************************)
(* A call runs to its end.  The caller comes back as long as it wants a    *)
(* message, time and again with the largest buffer it has, and the peer's  *)
(* bytes keep arriving; a step that realloc can make fail does not always  *)
(* fail.  The last three need strong fairness, since each is disabled      *)
(* while a call runs or a step is not the one that allocates.              *)
(***************************************************************************)
LargestCapacity == CHOOSE c \in Capacities : \A d \in Capacities : d <= c

FairSpec ==
  /\ MessageSpec
  /\ WF_vars(ParseByte \/ ReturnUsedUp)
  /\ SF_vars(Call(LargestCapacity))
  /\ SF_vars(\E n \in Chunks : Receive(n))
  /\ SF_vars(ParseByte /\ failure' # "memory")

-----------------------------------------------------------------------------
(* What the parser promises *)

Args == [size : 0..SHRT_MAX, capacity : 0..SHRT_MAX]

\* The type invariant of the parser and its caller.  method's bound is the
\* one http.h states for parser.method_i, so that msg->method keeps its NUL.
TypeOK ==
  /\ stream \in Streams
  /\ received \in 0..Len(stream)
  /\ type \in Types
  /\ state \in States
  /\ i \in 0..SHRT_MAX
  /\ cursor \in 0..SHRT_MAX
  /\ method \in Seq(Byte)
  /\ Len(method) <= HTTP_METHOD_MAX_STRLEN
  /\ name \in Slices
  /\ line \in Lines
  /\ store \in Stores
  /\ args \in Args
  /\ pc \in {"idle", "loop", "freed"}
  /\ ret \in -1..SHRT_MAX
  /\ failure \in Failures \cup {"none"}

\* The loop never gets past the bytes it was given, and the cursor, which
\* three cases set one byte ahead of the index ("BUG: Could this possibly
\* point past the buffer?"), has been caught up with whenever an iteration,
\* or a later call, begins.
WithinInput ==
  /\ cursor <= i
  /\ i <= args.size
  /\ args.size <= received

Ordered(slice) == slice.start <= slice.end /\ slice.end <= i

\* Every slice that a caller may read is an interval of the bytes already
\* parsed, whatever the offsets' 16 bits: a URI is never empty, and a header
\* kept in the list has a name, a colon and then its value.
SlicesInInput ==
  /\ Ordered(line.uri)
  /\ Ordered(line.message)
  /\ line.uri # NoSlice => line.uri.start < line.uri.end
  /\ \A h \in KnownHeaders : Ordered(store.std[h])
  /\ \A k \in 1..Len(store.x) :
       /\ store.x[k].name.start < store.x[k].name.end
       /\ store.x[k].name.end < store.x[k].value.start
       /\ Ordered(store.x[k].value)

\* The list's entries fit its allocation, the allocation is there when there
\* is an entry to write into it, and doubling never leaves half of it unused.
\* (The capacity that http_msg_free leaves behind is the next http_msg_init's
\* to clear.)
ListFitsAllocation ==
  /\ Len(store.x) <= store.cap
  /\ pc # "freed" => /\ store.buf <=> store.cap > 0
                     /\ store.cap > 0 => store.cap < 2 * Len(store.x)

Holds(slice, bytes) == \A k \in slice.start..(slice.end - 1) : At(k) \in bytes

UriBytes   == 33..126 \cup 160..255
TextBytes  == 32..126 \cup 160..255
ValueBytes == {HTAB} \cup TextBytes

\* The parser "guarantees no C0 or C1 control codes are present in message
\* fields, with the exception of tab", at every moment and for whatever the
\* peer sends: the bytes a slice delimits were looked at one by one, many
\* iterations and calls before the slice was recorded.
FieldsClean ==
  /\ \A k \in 1..Len(method) : method[k] \in Tokens /\ Upper(method[k]) = method[k]
  /\ Holds(line.uri, UriBytes)
  /\ Holds(line.message, TextBytes)
  /\ \A h \in KnownHeaders : Holds(store.std[h], ValueBytes)
  /\ \A k \in 1..Len(store.x) : /\ Holds(store.x[k].name, Tokens)
                                /\ Holds(store.x[k].value, ValueBytes)

\* What has been recorded of a message is not rewritten by the bytes, calls
\* and failures that follow, until the message is released: its first line,
\* the list's entries, and the first value of a repeatable header.
Keeps ==
  pc # "freed" /\ pc' # "freed" =>
    /\ line.uri # NoSlice => line'.uri = line.uri
    /\ line.message # NoSlice => line'.message = line.message
    /\ state \notin {"START", "METHOD"} => method' = method
    /\ state \notin {"START", "METHOD", "URI", "VERSION", "STATUS"} =>
         line'.version = line.version /\ line'.status = line.status
    /\ Len(store.x) <= Len(store'.x)
    /\ \A k \in 1..Len(store.x) : store'.x[k] = store.x[k]
    /\ \A h \in Repeatable :
         store.std[h].start # 0 => store'.std[h] = store.std[h]

RecordedIsKept == [][Keeps]_vars

\* A response whose first line has been read has a status of three digits,
\* whatever the caller does after an error: a status that is too large stays in
\* msg->status, and each call that comes back to it multiplies it by ten once
\* more, until the 32 bits wrap to a number that is small enough.
StatusHasThreeDigits ==
  type = RESPONSE /\ state \notin {"START", "VERSION", "STATUS"} =>
    line.status \in HTTP_STATUS_MIN..HTTP_STATUS_MAX

\* The last call has returned -1 for the byte at the index, but not for one of
\* the two that a later call may get past: a SP where the method should begin,
\* since by then the state is METHOD, and a digit that made the status too
\* large, since the status is multiplied by 10 once more.
Malformed ==
  /\ failure = "syntax"
  /\ state = "METHOD" /\ method = <<>> => Ch # SP
  /\ state = "STATUS" => ~IsDigit(Ch)

\* A caller cannot tell the failures apart, all of them being -1.  If it calls
\* again after a malformed byte, the message is never got on with, however many
\* calls it makes, those that fail their argument checks among them, and
\* whatever has arrived behind that byte.
SyntaxErrorIsFinal ==
  [](Malformed => [](failure \in {"syntax", "arguments"}))

=============================================================================
