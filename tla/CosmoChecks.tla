----------------------------- MODULE CosmoChecks -----------------------------
(***************************************************************************)
(* What the reference parser's results mean: the grammar of HttpMessage    *)
(* and the reading of the bytes in HttpChecks, both written for uurl's     *)
(* parser, instantiated for this one.  A test that passes with the one     *)
(* parser must pass with the other (test/test_interface.h).                *)
(***************************************************************************)
EXTENDS CosmoParser

Digits == 48..57

Verdict ==
  CASE ret > 0 -> ret
    [] failure = "syntax" -> -1
    [] OTHER -> 0

Grammar == INSTANCE HttpMessage WITH
  verdict   <- Verdict,
  MethodMax <- 8,
  Versions  <- Digits \X Digits

\* The version in the terms of enum http_versions
VersionName ==
  CASE line.version = 9  -> "0.9"
    [] line.version = 10 -> "1.0"
    [] line.version = 11 -> "1.1"
    [] OTHER -> "UNKNOWN"

\* The struct HttpMessage of this parser as uurl's struct http_message; the
\* index as if it had not run past the input.
Uurl == INSTANCE HttpChecks WITH
  i    <- IF i > args.size THEN args.size ELSE i,
  name <- key,
  line <- [line EXCEPT !.version = VersionName]

-----------------------------------------------------------------------------
\* "@return bytes on success, -1 on failure, 0 if more data must be read"
\* (cosmopolitan/net/http/parsehttpmessage.c:107): the parser accepts exactly
\* the head of a message, with its length, and rejects a stream only if no
\* message begins it.  The grammar is that of uurl's parser, except for
\* methods of eight characters and for versions of any two digits.
ReferenceImplementsMessage == Grammar!Spec

\* The first line's fields are the ones its bytes spell, by the reading that
\* uurl's fields are held against.
ReferenceFirstLineIsAsSent == Uurl!FirstLineIsAsSent

\* The headers of a message are the ones its bytes spell, and those of the
\* message before it are gone.  Where allocations failed some lines are missing,
\* with nothing to show for it in the answer: as many lines as allocations, none
\* of them one that belongs in a slot; the others are stored as if those had not
\* been sent.
ReferenceHeadersAreAsSent ==
  LET starts == Uurl!HeaderLines
  IN  \E dropped \in SUBSET Uurl!ListedOf(Uurl!RowOf(starts)) :
        /\ Cardinality(dropped) = lost
        /\ Uurl!StoreHolds(starts \ dropped)

\* The index runs at most one past the bytes of the call, and the cursor is
\* never ahead of it, whichever way the message is cut: what is sliced from
\* the one to the other is ordered, and lies in bytes that were received.
ReferenceStaysInInput ==
  /\ i <= args.size + 1
  /\ args.size <= received
  /\ state = "METHOD" => cursor = 8 * Len(method) /\ cursor <= 64
  /\ state # "METHOD" => cursor <= i
  /\ Uurl!SlicesInInput

\* The list's entries fit its allocation through any sequence of parsing,
\* destroying, initialising and resetting, even when parsing goes on after a
\* DestroyHttpMessage.
ReferenceListFits ==
  /\ Len(store.x) <= store.cap
  /\ store.buf <=> store.cap > 0

\* "If a message is valid but incomplete, this function will return zero so
\* that it can be resumed as soon as more data arrives" (lines 97-98), "State
\* persists across calls so that fragmented messages can be handled" (81-82):
\* a message is not rejected for the way it is cut.
FragmentsAreHandled ==
  failure = "syntax" => \A n \in 1..Len(stream) : ~Grammar!IsHead(stream, type, n)

=============================================================================
