------------------------- MODULE MCHttpHeaderTable --------------------------
(***************************************************************************)
(* HttpParser with the code's own table of headers.                        *)
(***************************************************************************)
EXTENDS HttpHeaderTable

\* Each known header on two lines
Twice(h) == Bytes("G /\n" \o HeaderRows[h][1] \o ": a\n" \o HeaderRows[h][1] \o ":b\r\n\r\n")

\* Messages of the tests (test_parse_request.c:190-320), with shorter values,
\* and a header whose name begins with that of another
Messages ==
  { Bytes("GET /t HTTP/1.1\r\nHost: 10.10\r\nConnection: keep\r\nUser-Agent: M/5.0 (W; x64)\r\nDNT:  \t1\r\nAccept: i/a,*/*;q=0.8\r\nReferer: http://1/\r\nAccept-Encoding: gz, de\r\nAccept-Language: en,e;q=0.9\r\n\r\n"),
    Bytes("GET /f HTTP/1.0\r\nX-User-Agent: hi\r\n\r\n"),
    Bytes("GET / HTTP/1.1\r\nAccept: a\r\nAccept: b\r\nAccept: c\r\nAccept: d\r\nAccept: e\r\n\r\n"),
    Bytes("POST /f HTTP/1.0\r\nhOST: foo.ex\r\ncontent-LENGTH: 0\r\n\r\n"),
    Bytes("GET / HTTP/1.1\r\nFrom: a\r\nFromage: b\r\n\r\n") }

Known == {Twice(h) : h \in 1..Len(HeaderRows)} \cup Messages

Table_      == HeaderTable
Repeatable_ == RepeatableRows

MCTable      == Table_
MCRepeatable == Repeatable_
MCKnown      == Known

\* Of the code's own rows, which no constant changes
ASSUME RowsAssumption == RowsAreRight

\* All of the stream is there before the first call.
WholeNext ==
  \/ received = 0 /\ Receive(Len(stream))
  \/ received > 0 /\ (ParseByte \/ ReturnUsedUp \/ Call(SHRT_MAX))

WholeSpec == Init /\ [][WholeNext]_vars

=============================================================================
