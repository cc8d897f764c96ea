---------------------------- MODULE MCHttpClient -----------------------------
(***************************************************************************)
(* A small instance of HttpClient for TLC.                                 *)
(***************************************************************************)
EXTENDS HttpClient, MCText

Rows == << Bytes("host"), Bytes("te") >>

MCRepeatable == {2}

\* Further headers, one of whose names another begins with, in either order,
\* and a repeated header whose second line goes to the list.
Requests ==
  { Bytes("G /\nX:1\nXy: 2 \nx:3\n\n"),
    Bytes("G /\nXY:\nX:2\nTe:a\nHost:b\nTE:\tc\n\n"),
    Bytes("G /\nHost:b\n\n") }

AskedNames == { Bytes("x"), Bytes("xY"), Bytes("Xyz"), Bytes("te"), Bytes("Host"), <<>> }

MCTable   == Rows
MCStreams == Requests
MCNames   == AskedNames

=============================================================================
