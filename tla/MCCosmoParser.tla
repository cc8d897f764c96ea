---------------------------- MODULE MCCosmoParser ----------------------------
(***************************************************************************)
(* Small instances of CosmoParser for TLC.                                 *)
(***************************************************************************)
EXTENDS CosmoChecks, MCText

\* The rows of MCHttpParser
Rows == << Bytes("host"), Bytes("accept"), Bytes("accept-language"),
           Bytes("content-type"), Bytes("te") >>

MCRepeatable == {2, 3, 5}

Messages ==
  { Bytes("G /a HTTP/1.1\r\nHost: b\r\n\r\n"),
    Bytes("\r\nget / HTTP/1.0\nte:a\nTE: \tb \t\nTe:c\n\n"),
    Bytes("G /\r\nX:\t \r\nY:1\nz: 2\r\n\n"),
    Bytes("G / HTTP/1.1\nhost:a\nHost: bb\nX:c\n\r\n"),
    Bytes("G / HTTP/4.2 X: y\r\n\r\nbody"),
    Bytes("OPTIONSX * HTTP/1.1\r\n\r\n"),
    Bytes("OPTIONSXY * HTTP/1.1\r\n\r\n"),
    Bytes(" / HTTP/1.1\r\n\r\n"),
    Bytes("G  HTTP/1.1\r\n\r\n"),
    Bytes("G / HTTP/1.x\r\n\r\n"),
    Bytes("G / HTTP/1.10\r\n\r\n"),
    Bytes("G / HTTP/1.1\rX"),
    Bytes("G / HTTP/1.1\nAccept: tr"),
    Bytes("G /\n fold: a\n\n"),
    Bytes("G /\nA:b\r\r\n"),
    Bytes("G /\nA(:b\n\n"),
    Bytes("G /\nA:b\n\rc"),
    Bytes("G /\nA:") \o <<127, 10, 10>>,
    Bytes("G /\nA: b") \o <<136, 10, 10>>,
    Bytes("G /") \o <<127, 10, 10>>,
    Bytes("HTTP/1.1 200 OK\r\nte: a\r\n\r\n"),
    Bytes("\nHTTP/2.0 404 \tNo\r\n\r\n"),
    Bytes("HTTP/1.0 404 Not A\nX:y\nx: \n\n"),
    Bytes("HTTP/1.1\r0100 \n\n"),
    Bytes("HTTP/1.1\n204\nAccept:a\naccept:b\n\r\n"),
    Bytes("HTTP/1.1 99 Low\n\n"),
    Bytes("HTTP/1.1 1000 High\n\n"),
    Bytes("HTTP/1.1 2x0 OK\n\n"),
    Bytes("HTTP/1.1 200 O") \o <<233, 10, 10>> }

\* For the run on every order of calls: two messages of three headers, one whose
\* method is too long, and one whose status is, and overflows when parsed again
Pairs == { Bytes("G /\nX:1\nTe:2\nTe:\nY:3\n\n"), Bytes("P /\nA:1\nB:2\nC:"),
           Bytes("OPTIONSXY /\n"), Bytes("HTTP/1.1 1003\n") }

MCTable    == Rows
MCMessages == Messages
MCPairs    == Pairs

=============================================================================
