--------------------------- MODULE HttpHeaderTable ---------------------------
(***************************************************************************)
(* The table of known headers of uurl/http_header.c, whole: the rows of    *)
(* http_header_lookup with the length that each is compared over, and the  *)
(* set of http_header_is_repeatable.  Both are written by hand, in an      *)
(* order of their own, and nothing but the names relates them.             *)
(***************************************************************************)
EXTENDS HttpChecks, MCText

\* if (strncasecmp(text, str, length) == 0), in the order of the code, which is
\* that of enum http_headers
CommonRows == <<
    <<"Host", 4>>, <<"Cache-Control", 13>>, <<"Connection", 10>>, <<"Accept", 6>>,
    <<"Accept-Language", 15>>, <<"Accept-Encoding", 15>>, <<"User-Agent", 10>>, <<"Referer", 7>>,
    <<"X-Forwarded-For", 15>>, <<"Origin", 6>>, <<"Upgrade-Insecure-Requests", 25>>,
    <<"Pragma", 6>>, <<"Cookie", 6>>, <<"DNT", 3>>, <<"Sec-GPC", 7>>, <<"From", 4>>,
    <<"If-Modified-Since", 17>>, <<"X-Requested-With", 16>>, <<"X-Forwarded-Host", 16>>,
    <<"X-Forwarded-Proto", 17>>, <<"X-CSRF-Token", 12>>, <<"Save-Data", 9>>, <<"Range", 5>>,
    <<"Content-Length", 14>>, <<"Content-Type", 12>>, <<"Vary", 4>>, <<"Date", 4>>,
    <<"Server", 6>>, <<"Expires", 7>>, <<"Content-Encoding", 16>>, <<"Last-Modified", 13>>,
    <<"ETag", 4>>, <<"Allow", 5>>, <<"Content-Range", 13>>, <<"Accept-Charset", 14>>,
    <<"Access-Control-Allow-Credentials", 32>>, <<"Access-Control-Allow-Headers", 28>>,
    <<"Access-Control-Allow-Methods", 28>>, <<"Access-Control-Allow-Origin", 27>>,
    <<"Access-Control-MaxAge", 21>>, <<"Access-Control-Method", 21>>,
    <<"Access-Control-Request-Headers", 30>>, <<"Access-Control-Request-Method", 29>>,
    <<"Access-Control-Request-Methods", 30>>, <<"Age", 3>>, <<"Authorization", 13>>,
    <<"Content-Base", 12>> >>

OtherRows == <<
    <<"Content-Description", 19>>, <<"Content-Disposition", 19>>, <<"Content-Language", 16>>,
    <<"Content-Location", 16>>, <<"Content-MD5", 11>>, <<"Expect", 6>>, <<"If-Match", 8>>,
    <<"If-None-Match", 13>>, <<"If-Range", 8>>, <<"If-Unmodified-Since", 19>>,
    <<"Keep-Alive", 10>>, <<"Link", 4>>, <<"Location", 8>>, <<"Max-Forwards", 12>>,
    <<"Proxy-Authenticate", 18>>, <<"Proxy-Authorization", 19>>, <<"Proxy-Connection", 16>>,
    <<"Public", 6>>, <<"Retry-After", 11>>, <<"TE", 2>>, <<"Trailer", 7>>,
    <<"Transfer-Encoding", 17>>, <<"Upgrade", 7>>, <<"Warning", 7>>, <<"WWW-Authenticate", 16>>,
    <<"Via", 3>>, <<"Strict-Transport-Security", 25>>, <<"X-Frame-Options", 15>>,
    <<"X-Content-Type-Options", 22>>, <<"Alt-Svc", 7>>, <<"Referrer-Policy", 15>>,
    <<"X-XSS-Protection", 16>>, <<"Accept-Ranges", 13>>, <<"Set-Cookie", 10>>, <<"Sec-CH-UA", 9>>,
    <<"Sec-CH-UA-Mobile", 16>>, <<"Sec-CH-UA-Platform", 18>>, <<"Sec-Fetch-Site", 14>>,
    <<"Sec-Fetch-Mode", 14>>, <<"Sec-Fetch-User", 14>>, <<"Sec-Fetch-Dest", 14>>, <<"CF-RAY", 6>>,
    <<"CF-Visitor", 10>>, <<"CF-Connecting-IP", 16>>, <<"CF-IPCountry", 12>>, <<"CDN-Loop", 8>> >>

HeaderRows == CommonRows \o OtherRows

RepeatableNames == {
    "Accept-Charset", "Accept-Encoding", "Accept-Language", "Accept", "Allow", "Cache-Control",
    "Content-Encoding", "Content-Language", "Expect", "If-Match", "If-None-Match", "Pragma",
    "Proxy-Authenticate", "Public", "TE", "Trailer", "Transfer-Encoding", "Upgrade", "Vary", "Via",
    "Warning", "WWW-Authenticate", "X-Forwarded-For", "Access-Control-Allow-Headers",
    "Access-Control-Allow-Methods", "Access-Control-Request-Headers",
    "Access-Control-Request-Methods" }

\* What strncasecmp compares of a row: a length past its end takes in the NUL.
Compared(row) ==
  [k \in 1..row[2] |-> IF k > Len(row[1]) THEN 0
                       ELSE Lower(ByteOf(SubSeq(row[1], k, k)))]

\* What HttpHeader is given for its constants
HeaderTable == <<>> \o [h \in 1..Len(HeaderRows) |-> Compared(HeaderRows[h])]

RepeatableRows == {h \in 1..Len(HeaderRows) : HeaderRows[h][1] \in RepeatableNames}

-----------------------------------------------------------------------------
\* The rows' names, whatever is compared of them, and the seven rows that a row
\* before them keeps from ever being returned
RowNames == <<>> \o [h \in 1..Len(HeaderRows) |->
  [k \in 1..Len(HeaderRows[h][1]) |-> Lower(ByteOf(SubSeq(HeaderRows[h][1], k, k)))]]

HiddenNames == {
  "Accept-Language", "Accept-Encoding", "Accept-Charset", "Accept-Ranges",
  "Access-Control-Request-Methods", "Sec-CH-UA-Mobile", "Sec-CH-UA-Platform" }

FoundRows == {h \in 1..Len(HeaderRows) : HeaderRows[h][1] \notin HiddenNames}

\* The name of the line that begins at k, and the rows of a set that bear it
NameText(k) == [j \in 1..(ColonOf(k) - k) |-> Lower(At(k + j - 1))]

Bearing(rows, k) == LET text == NameText(k) IN {h \in rows : RowNames[h] = text}

\* Each row is compared over the length of its name, no more and no less, and of
\* the names but seven none begins with that of a row before it: neither a wrong
\* length nor a row moved up the chain hides a header from the lookup.
RowsAreRight ==
  /\ HeaderTable = RowNames
  /\ \A h \in FoundRows : \A g \in 1..(h - 1) : ~PrefixAt(RowNames[g], RowNames[h], 0)

\* Of the ninety-three names all but seven are found in the slot of that name,
\* with the value of the first line if the header is repeatable and of the last
\* if it is not, unless a line with a longer name that begins with it is sent
\* as well.  It takes ninety-three lengths and their order to be right.
NamesReachTheirSlots ==
  pc # "freed" =>
    \A k \in HeaderLines : \A h \in Bearing(FoundRows, k) :
      LET alike == {j \in HeaderLines : PrefixAt(RowNames[h], stream, j)}
      IN  (\A j \in alike : ColonOf(j) - j = Len(RowNames[h])) =>
            store.std[h] = ValueOf(IF h \in RepeatableRows THEN Min(alike) ELSE Max(alike))

-----------------------------------------------------------------------------
(* What a comment of the code says of its tables that they do not keep     *)

Kept(k) == \/ \E h \in KnownHeaders : store.std[h] = ValueOf(k)
           \/ \E n \in 1..Len(store.x) : store.x[n].value = ValueOf(k)

CookieRows == {h \in 1..Len(HeaderRows) : HeaderRows[h][1] = "Cookie"}

\* "Set of standard comma-separate HTTP headers that may span lines. These
\* headers may specified on multiple lines [...] Please note non-standard
\* headers exist, e.g. Cookie, that may span multiple lines [...] For those
\* headers we simply don't add them to the perfect hash table"
\* (uurl/http_header.c:25-53): each line of a header of the set is kept, and
\* each Cookie line, in the list.
SpanningLinesAreKept ==
  pc # "freed" =>
    \A k \in HeaderLines :
      Bearing(RepeatableRows \cup CookieRows, k) # {} => Kept(k)

=============================================================================
