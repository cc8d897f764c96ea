---------------------------- MODULE MCHttpParser -----------------------------
(***************************************************************************)
(* Small instances of HttpParser for TLC.                                  *)
(***************************************************************************)
EXTENDS HttpChecks, MCText

\* Five rows of http_header_lookup, in its order, one of them shadowed.
Rows == << Bytes("host"), Bytes("accept"), Bytes("accept-language"),
           Bytes("content-type"), Bytes("te") >>

MCRepeatable == {2, 3, 5}

\* Requests that are taken, whole or cut short, and requests that are not.
Requests ==
  { Bytes("G /a HTTP/1.1\r\nHost: b\r\n\r\n"),
    Bytes("\r\nget / HTTP/1.0\nte:a\nTE: \tb \t\nTe:c\n\n"),
    Bytes("G /\r\nX:\t \r\nY:1\nz: 2\r\n\n"),
    Bytes("G / HTTP/1.1\nhost:a\nHost: bb\nX:c\n\r\n"),
    Bytes("G / HTTP/0.9 X: y\r\n\r\nbody"),
    Bytes("G / HTTP/1.0 \r\nX: y\r\n\r\n"),
    Bytes("OPTIONS * HTTP/1.1\r\n\r\nTE: a\r\n\r\n"),
    Bytes("G / HTTP/1.1\r\nAccept-Language: a\r\n\r\n"),
    Bytes("OPTIONSX * HTTP/1.1\r\n\r\n"),
    Bytes(" / HTTP/1.1\r\n\r\n"),
    Bytes("G  HTTP/1.1\r\n\r\n"),
    Bytes("G / HTTP/4.2\r\n\r\n"),
    Bytes("G / HTTP/1.1\rX"),
    Bytes("G /\n fold: a\n\n"),
    Bytes("G /\nA:b\n: c\n\n"),
    Bytes("G /\nA:b\r\r\n"),
    Bytes("G /\nA:b\n\rc"),
    Bytes("G /\nA(:b\n\n"),
    Bytes("G /\nA:") \o <<127, 10, 10>>,
    Bytes("G /\nA: b") \o <<136, 10, 10>>,
    Bytes("G /") \o <<127, 10, 10>>,
    <<>> }

\* Responses, likewise.
Responses ==
  { Bytes("HTTP/1.1 200 OK\r\nte: a\r\n\r\n"),
    Bytes("\nHTTP/1.0 404 \tNo\r\n\r\n"),
    Bytes("HTTP/1.0 404 Not A\nX:y\nx: \n\n"),
    Bytes("HTTP/0.9 999\r\n\r\nbody"),
    Bytes("HTTP/1.1\r0100 \n\n"),
    Bytes("HTTP/1.1\n204\nAccept:a\naccept:b\n\r\n"),
    Bytes("HTTP/1.1 200\r\nHos"),
    Bytes("HTTP/1.1 99 Low\n\n"),
    Bytes("HTTP/1.1 1000 High\n\n"),
    Bytes("HTTP/1.1 \n\n"),
    Bytes("HTTP/1.1 2x0 OK\n\n"),
    Bytes("HTTP/1.2 200 OK\n\n"),
    Bytes("http/1.1 200 OK\n\n"),
    Bytes("HTTP/1.1 200 O") \o <<136, 75, 10, 10>>,
    Bytes("HTTP/1.1 200 O") \o <<233, 10, 10>>,
    Bytes("HTTP/1.1 200\r\r\n") }

\* Heads with a body or a second message behind them
Pipelined ==
  { Bytes("G /a HTTP/1.0\nTe:a\n\r\nTe:b\nX:c\n\n"),
    Bytes("G /a HTTP/1.1\r\nX: b\r\n\r\n\nY: c\n\n"),
    Bytes("G /\nHost:a\n\nTe:b\nTe: c\n\r\nX:d\n"),
    Bytes("G /\n\nP /b HTTP/1.0\nX:y\n\n"),
    Bytes("G /\n\r\nG /b\nHost:c\n\r\n"),
    Bytes("G /\n\r\n\n\n\nX:a\n\n") }

\* A message with three headers for the list, and two that are longer than
\* SHRT_MAX, with a URI and a value that run over it
LongMessages ==
  { Bytes("G /\nX:1\nY:2\nZ: 3\nte: 4\n\n"),
    Bytes("G /abcdefghijklmnopqrstuvwxyz012345678\nte:a\n\n"),
    Bytes("G / HTTP/1.0\nX:abc\nte:abcdefghijklmnopqr\n\n") }

\* Short messages, for the liveness run: one that is whole and needs two
\* allocations, one that is cut short, one that is malformed.
ShortRequests ==
  { Bytes("G /\nX:1\nY:2\n\nbc"), Bytes("G /\nX:"), Bytes("G /\nA:b\r\rc") }

\* TLC evaluates the definitions above once, but what a .cfg substitutes for
\* a constant anew at every use.
Messages == Requests \cup Responses \cup LongMessages

\* Parsed again at the 3, the last of them comes to 1003, 10033 and 100333: with
\* UINT32 at 20000 the third is 333.
Repeated == Requests \cup Responses \cup Pipelined \cup { Bytes("HTTP/1.1 1003\n\n") }

MCTable         == Rows
MCRequests      == Requests
MCMessages      == Messages
MCRepeated      == Repeated
MCShortRequests == ShortRequests

=============================================================================
