--------------------------- MODULE MCEveryRequest ---------------------------
(***************************************************************************)
(* HttpParser on every request that is made up of a few pieces.            *)
(***************************************************************************)
EXTENDS HttpChecks, MCText

Rows == << Bytes("aa"), Bytes("a") >>

Pieces == { <<SP>>, <<CR>>, <<LF>>, <<COLON>>, <<65>>, Bytes("HTTP/1.1") }

RECURSIVE Joined(_)
Joined(n) == IF n = 0 THEN {<<>>}
             ELSE {s \o p : s \in Joined(n - 1), p \in Pieces}

\* Any four pieces; five behind the first line of a HTTP/0.9 request and four
\* behind its first header; four where a request's version is expected
Requests == Joined(4) \cup {<<65, SP, 65, LF>> \o s : s \in Joined(5)}
                      \cup {<<65, SP, 65, LF, 65, COLON, LF>> \o s : s \in Joined(4)}
                      \cup {<<65, SP, 65, SP>> \o s : s \in Joined(4)}

MCTable    == Rows
MCRequests == Requests

\* All of the stream is there before the first call.
WholeNext ==
  \/ received = 0 /\ Receive(Len(stream))
  \/ received > 0 /\ (ParseByte \/ ReturnUsedUp \/ Call(SHRT_MAX))

WholeSpec == Init /\ [][WholeNext]_vars

=============================================================================
