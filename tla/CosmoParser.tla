----------------------------- MODULE CosmoParser -----------------------------
(***************************************************************************)
(* The reference parser, cosmopolitan/net/http/parsehttpmessage.c, from    *)
(* which the parser of uurl was derived and which the same tests are run   *)
(* against, with a program that calls it.                                  *)
(*                                                                         *)
(* It has the same states, and differs in that six of them read a run of   *)
(* bytes in a loop of their own, within one iteration of the outer loop;   *)
(* one action is one iteration of whichever loop is the inner one.  The    *)
(* variables are the fields of struct HttpMessage; state, cursor and key   *)
(* are its t, a and k, as uurl's annotated copy of the file calls them.    *)
(* Its slices are signed 16-bit offsets; none exceeds SHRT_MAX, so that    *)
(* those of HttpHeader stand for them.                                     *)
(***************************************************************************)
EXTENDS HttpHeader

CONSTANTS
  Streams,      \* the byte sequences the peer may send
  Types,        \* the message types a message is initialised with
  Chunks,       \* how many bytes may arrive at a time
  Capacities,   \* the buffer capacities the caller may state
  Retryable,    \* the failures after which the caller calls again
  SHRT_MAX,     \* the longest message that is looked at: 2^15 - 1 in the code
  UINT32        \* how many values an int has: 2^32 in the code

kHttpRequest  == "REQUEST"
kHttpResponse == "RESPONSE"

\* Why a call returned -1: einval() for the first, ebadmsg() for the others.
Failures == {"arguments", "full", "syntax"}

ASSUME CosmoAssumption ==
  /\ Streams \subseteq Seq(Byte)
  /\ Types \subseteq {kHttpRequest, kHttpResponse}
  /\ Chunks \subseteq Nat \ {0}
  /\ Capacities \subseteq Nat
  /\ Retryable \subseteq Failures
  /\ SHRT_MAX \in Nat \ {0}
  /\ SHRT_MAX < UINT16
  /\ UINT32 \in Nat
  /\ UINT32 > 2 * (10 * 999 + 9)

VARIABLES
  stream,    \* the bytes the peer sends for this message
  received,  \* how many of them are in the caller's buffer
  type,      \* the kind of message
  state,     \* where the parser is
  i,         \* the index, which runs on past the input when a run meets its end
  cursor,    \* where a part began, and while the method is read its length in bits
  method,    \* the bytes packed into the uint64_t
  key,       \* the slice of the pending header's name
  line,      \* uri, version (ten times the major plus the minor), status, message
  store,     \* headers and xheaders
  args,      \* n and c of the last call, as clamped
  pc,        \* "idle", or "loop" inside ParseHttpMessage
  ret,       \* what the last call returned, 0 while a call is running
  failure,   \* why the last return was -1, until the parser gets on or returns 0
  lost       \* how many headers went for want of memory (history)

peer   == <<stream, received>>
parser == <<state, i, cursor, method, key, line, store>>
vars   == <<peer, type, parser, args, pc, ret, failure, lost>>

States == {"START", "METHOD", "URI", "VERSION", "STATUS", "MESSAGE", "NAME",
           "COLON", "VALUE", "CR", "LF1", "LF2"}

NoLine == [uri |-> NoSlice, version |-> 0, status |-> 0, message |-> NoSlice]

-----------------------------------------------------------------------------
At(j) == stream[j + 1]

Ch == At(i)

\* The value [from, to) without the blanks it ends in
RTrim(from, to) ==
  CHOOSE e \in from..to : /\ \A j \in e..(to - 1) : IsHtabOrSpace(At(j))
                          /\ e = from \/ ~IsHtabOrSpace(At(e - 1))

\* The eight bytes from the cursor on are "HTTP/d.d", whichever the two digits.
IsVersion ==
  /\ i - cursor = 8
  /\ SubSeq(stream, cursor + 1, cursor + 5) = <<72, 84, 84, 80, 47>> /\ At(cursor + 6) = 46
  /\ IsDigit(At(cursor + 5)) /\ IsDigit(At(cursor + 7))

Clamp(n) == IF n > SHRT_MAX THEN SHRT_MAX ELSE n

\* Where the cursor goes when a SP ends a part of the first line
\* (Slip: the cursor is left at the SP.)
NextOffsetSlip == i
NextOffset == i + 1

\* r->status as a signed integer of 32 bits
Int32(n) == LET low == n % UINT32 IN IF 2 * low < UINT32 THEN low ELSE low - UINT32

\* The token table and the repeatable headers are those of uurl.
kHttpToken(c) == IsToken(c)
kHttpRepeatable(h) == h \in Repeatable

\* The length that came with the name is not used, and the rows of the Table are
\* compared in their order, as in uurl.
LookupHttpHeader(from) == http_header_lookup(stream, from)
GetHttpHeader(name) == LookupHttpHeader(name.start)

-----------------------------------------------------------------------------
(* How an iteration ends *)

\* break out of the switch, and the outer loop's ++r->i
Continue(s) ==
  /\ state' = s
  /\ i' = i + 1
  /\ failure' = "none"
  /\ UNCHANGED <<pc, ret>>

\* The end of an iteration of an inner loop.  At the end of the input,
\* "if (++r->i == n) break" is followed by the outer loop's ++r->i.
NextOfRun(s) ==
  /\ state' = s
  /\ i' = IF i + 1 = args.size THEN i + 2 ELSE i + 1
  /\ failure' = "none"
  /\ UNCHANGED <<pc, ret>>

\* return ebadmsg()
Bad(s) ==
  /\ state' = s
  /\ ret' = -1
  /\ failure' = "syntax"
  /\ pc' = "idle"
  /\ UNCHANGED i

\* return ++r->i
Succeed ==
  /\ i' = i + 1
  /\ ret' = i + 1
  /\ failure' = "none"
  /\ pc' = "idle"
  /\ UNCHANGED state

\* (Slip: the LF that must follow a CR is not asked for.)
EndOfLineSlip == "LF1"
EndOfLine == IF Ch = CR THEN "CR" ELSE "LF1"

Reading(s) == pc = "loop" /\ i < args.size /\ state = s

Outside == <<peer, type, args>>

-----------------------------------------------------------------------------
(* The cases of the switch *)

Start ==
  /\ Reading("START")
  /\ \/ IsCrlf(Ch) /\ Continue("START") /\ UNCHANGED <<cursor, method>>
     \/ ~IsCrlf(Ch) /\ ~kHttpToken(Ch) /\ Bad("START") /\ UNCHANGED <<cursor, method>>
     \/ /\ kHttpToken(Ch)
        /\ type = kHttpRequest
        /\ method' = <<Upper(Ch)>>
        /\ cursor' = 8
        /\ Continue("METHOD")
     \/ /\ kHttpToken(Ch)
        /\ type # kHttpRequest
        /\ cursor' = i
        /\ Continue("VERSION")
        /\ UNCHANGED method
  /\ UNCHANGED <<key, line, store, lost, Outside>>

\* Eight characters fill the 64 bits.
\* (Slip: the bound is one character too far.)
MethodIsFullSlip == cursor > 64
MethodIsFull == cursor = 64

Method ==
  /\ Reading("METHOD")
  /\ \/ Ch = SP /\ cursor' = NextOffset /\ Continue("URI") /\ UNCHANGED method
     \/ /\ Ch # SP
        /\ MethodIsFull \/ ~kHttpToken(Ch)
        /\ Bad("METHOD")
        /\ UNCHANGED <<cursor, method>>
     \/ /\ ~MethodIsFull
        /\ kHttpToken(Ch)
        /\ method' = Append(method, Upper(Ch))
        /\ cursor' = cursor + 8
        /\ NextOfRun("METHOD")
  /\ UNCHANGED <<key, line, store, lost, Outside>>

Uri ==
  /\ Reading("URI")
  /\ \/ IsCrlfOrSpace(Ch) /\ i = cursor /\ Bad("URI") /\ UNCHANGED <<cursor, line>>
     \/ /\ Ch = SP
        /\ i # cursor
        /\ line' = [line EXCEPT !.uri = Slice(cursor, i)]
        /\ cursor' = NextOffset
        /\ Continue("VERSION")
     \/ /\ IsCrlf(Ch)
        /\ i # cursor
        /\ line' = [line EXCEPT !.uri = Slice(cursor, i), !.version = 9]
        /\ Continue(EndOfLine)
        /\ UNCHANGED cursor
     \/ /\ ~IsCrlfOrSpace(Ch)
        /\ IF IsIso8859_1(Ch) THEN NextOfRun("URI") ELSE Bad("URI")
        /\ UNCHANGED <<cursor, line>>
  /\ UNCHANGED <<method, key, store, lost, Outside>>

Version ==
  /\ Reading("VERSION")
  /\ \/ ~IsCrlfOrSpace(Ch) /\ Continue("VERSION") /\ UNCHANGED line
     \/ IsCrlfOrSpace(Ch) /\ ~IsVersion /\ Bad("VERSION") /\ UNCHANGED line
     \/ /\ IsCrlfOrSpace(Ch)
        /\ IsVersion
        /\ line' = [line EXCEPT !.version = (At(cursor + 5) - 48) * 10 + (At(cursor + 7) - 48)]
        /\ Continue(IF type = kHttpRequest THEN EndOfLine ELSE "STATUS")
  /\ UNCHANGED <<cursor, method, key, store, lost, Outside>>

\* One more digit of the status.  Overflow, which takes a caller that calls again
\* after a status has been refused, is undefined: the sum wraps, and the check
\* that follows it is of the sum that wrapped or of the one that should have been.
StatusDigit(sum) ==
  /\ line' = [line EXCEPT !.status = Int32(sum)]
  /\ \/ (sum > 999 \/ Int32(sum) > 999) /\ Bad("STATUS")
     \/ (sum <= 999 \/ Int32(sum) <= 999) /\ NextOfRun("STATUS")

Status ==
  /\ Reading("STATUS")
  /\ \/ IsCrlfOrSpace(Ch) /\ line.status < 100 /\ Bad("STATUS") /\ UNCHANGED <<cursor, line>>
     \/ /\ Ch = SP
        /\ line.status >= 100
        /\ cursor' = NextOffset
        /\ Continue("MESSAGE")
        /\ UNCHANGED line
     \/ /\ IsCrlf(Ch)
        /\ line.status >= 100
        /\ Continue(EndOfLine)
        /\ UNCHANGED <<cursor, line>>
     \/ /\ IsDigit(Ch)
        /\ StatusDigit(10 * line.status + (Ch - 48))
        /\ UNCHANGED cursor
     \/ /\ ~IsCrlfOrSpace(Ch)
        /\ ~IsDigit(Ch)
        /\ Bad("STATUS")
        /\ UNCHANGED <<cursor, line>>
  /\ UNCHANGED <<method, key, store, lost, Outside>>

Message ==
  /\ Reading("MESSAGE")
  /\ \/ /\ IsCrlf(Ch)
        /\ line' = [line EXCEPT !.message = Slice(cursor, i)]
        /\ Continue(EndOfLine)
     \/ /\ ~IsCrlf(Ch)
        /\ IF IsIso8859_1(Ch) THEN NextOfRun("MESSAGE") ELSE Bad("MESSAGE")
        /\ UNCHANGED line
  /\ UNCHANGED <<cursor, method, key, store, lost, Outside>>

Cr ==
  /\ Reading("CR")
  /\ IF Ch = LF THEN Continue("LF1") ELSE Bad("CR")
  /\ UNCHANGED <<cursor, method, key, line, store, lost, Outside>>

Lf1 ==
  /\ Reading("LF1")
  /\ \/ Ch = CR /\ Continue("LF2") /\ UNCHANGED key
     \/ Ch = LF /\ Succeed /\ UNCHANGED key
     \/ ~IsCrlf(Ch) /\ ~kHttpToken(Ch) /\ Bad("LF1") /\ UNCHANGED key
     \/ kHttpToken(Ch) /\ key' = [key EXCEPT !.start = U16(i)] /\ Continue("NAME")
  /\ UNCHANGED <<cursor, method, line, store, lost, Outside>>

Name ==
  /\ Reading("NAME")
  /\ \/ Ch = COLON /\ key' = [key EXCEPT !.end = U16(i)] /\ Continue("COLON")
     \/ /\ Ch # COLON
        /\ IF kHttpToken(Ch) THEN NextOfRun("NAME") ELSE Bad("NAME")
        /\ UNCHANGED key
  /\ UNCHANGED <<cursor, method, line, store, lost, Outside>>

\* The pending header, with the value that starts at from.  When realloc fails the
\* header is dropped, without a word, and the parser goes on.
StoreHeader(from) ==
  LET h     == GetHttpHeader(key)
      value == Slice(from, RTrim(from, i))
      slot  == h # UNKNOWN /\ (store.std[h].start = 0 \/ ~kHttpRepeatable(h))
  IN  \/ /\ slot
         /\ store' = SetSlot(store, h, value)
         /\ UNCHANGED lost
      \/ /\ ~slot
         /\ store' = xheaders_insert(store, key, value)
         /\ UNCHANGED lost
      \/ /\ ~slot
         /\ MustGrow(store)
         /\ lost' = lost + 1
         /\ UNCHANGED store

ValueByte(from) ==
  \/ /\ IsCrlf(Ch)
     /\ StoreHeader(from)
     /\ Continue(EndOfLine)
  \/ /\ ~IsCrlf(Ch)
     /\ IF Ch = HTAB \/ IsIso8859_1(Ch) THEN NextOfRun("VALUE") ELSE Bad("VALUE")
     /\ UNCHANGED <<store, lost>>

Colon ==
  /\ Reading("COLON")
  /\ \/ IsHtabOrSpace(Ch) /\ Continue("COLON") /\ UNCHANGED <<cursor, store, lost>>
     \/ ~IsHtabOrSpace(Ch) /\ cursor' = i /\ ValueByte(i)
  /\ UNCHANGED <<method, key, line, Outside>>

Value ==
  /\ Reading("VALUE")
  /\ ValueByte(cursor)
  /\ UNCHANGED <<cursor, method, key, line, Outside>>

Lf2 ==
  /\ Reading("LF2")
  /\ IF Ch = LF THEN Succeed ELSE Bad("LF2")
  /\ UNCHANGED <<cursor, method, key, line, store, lost, Outside>>

ReturnUsedUp ==
  /\ pc = "loop"
  /\ i >= args.size
  /\ pc' = "idle"
  /\ IF i < args.capacity THEN ret' = 0 /\ failure' = "none"
                          ELSE ret' = -1 /\ failure' = "full"
  /\ UNCHANGED <<peer, type, parser, args, lost>>

Parse == Start \/ Method \/ Uri \/ Version \/ Status \/ Message \/ Cr \/ Lf1
           \/ Name \/ Colon \/ Value \/ Lf2 \/ ReturnUsedUp

-----------------------------------------------------------------------------
(* The caller *)

Call(c) ==
  /\ pc = "idle"
  /\ ret = 0 \/ failure \in Retryable
  /\ \/ /\ received > c
        /\ ret' = -1
        /\ failure' = "arguments"
        /\ UNCHANGED <<args, pc>>
     \/ /\ received <= c
        /\ args' = [size |-> Clamp(received), capacity |-> Clamp(c)]
        /\ pc' = "loop"
        /\ ret' = 0
        /\ UNCHANGED failure
  /\ UNCHANGED <<peer, type, parser, lost>>

Receive(n) ==
  /\ pc = "idle"
  /\ received + n <= Len(stream)
  /\ received' = received + n
  /\ UNCHANGED <<stream, type, parser, args, pc, ret, failure, lost>>

\* The next message begins, with the store that initialising it leaves.
Begin(s, ty, initial) ==
  /\ stream' = s /\ received' = 0
  /\ type' = ty /\ state' = "START"
  /\ i' = 0 /\ cursor' = 0 /\ method' = <<>> /\ key' = NoSlice
  /\ line' = NoLine
  /\ store' = initial
  /\ args' = [size |-> 0, capacity |-> 0]
  /\ pc' = "idle" /\ ret' = 0 /\ failure' = "none" /\ lost' = 0

\* DestroyHttpMessage, then InitHttpMessage
\* (Slip: the capacity outlives the list, as it does in uurl.)
DestroyedSlip == Freed(store)
Destroyed == IF store.buf THEN [store EXCEPT !.x = <<>>, !.cap = 0, !.buf = FALSE]
                          ELSE store

DestroyHttpMessage ==
  /\ pc = "idle"
  /\ store' = Destroyed
  /\ UNCHANGED <<peer, type, state, i, cursor, method, key, line, args, pc, ret, failure, lost>>

\* Nothing is leaked by an InitHttpMessage that follows a DestroyHttpMessage.
InitHttpMessage(s, ty) ==
  /\ pc = "idle"
  /\ ~store.buf
  /\ Begin(s, ty, EmptyStore)

\* The list's allocation is kept for the next message, its entries are not.
\* (Slip: the entries are kept too.)
ResetStoreSlip == [EmptyStore EXCEPT !.cap = store.cap, !.buf = store.buf, !.x = store.x]
ResetStore == [EmptyStore EXCEPT !.cap = store.cap, !.buf = store.buf]

ResetHttpMessage(s, ty) ==
  /\ pc = "idle"
  /\ Begin(s, ty, ResetStore)

Init ==
  /\ stream \in Streams /\ received = 0
  /\ type \in Types /\ state = "START"
  /\ i = 0 /\ cursor = 0 /\ method = <<>> /\ key = NoSlice
  /\ line = NoLine
  /\ store = EmptyStore
  /\ args = [size |-> 0, capacity |-> 0]
  /\ pc = "idle" /\ ret = 0 /\ failure = "none" /\ lost = 0

MessageNext ==
  \/ Parse
  \/ \E c \in Capacities : Call(c)
  \/ \E n \in Chunks : Receive(n)

Next ==
  \/ MessageNext
  \/ DestroyHttpMessage
  \/ \E s \in Streams, ty \in Types : InitHttpMessage(s, ty) \/ ResetHttpMessage(s, ty)

Spec == Init /\ [][Next]_vars

\* A caller that the peer's bytes reach line by line, the last of them perhaps
\* unfinished, and whose messages follow each other by ResetHttpMessage
LineNext ==
  \/ Parse
  \/ \E c \in Capacities : Call(c)
  \/ \E n \in 1..Len(stream) :
       /\ Receive(n)
       /\ received' = Len(stream) \/ stream[received'] = LF
  \/ \E s \in Streams, ty \in Types : ResetHttpMessage(s, ty)

LineSpec == Init /\ [][LineNext]_vars

=============================================================================
