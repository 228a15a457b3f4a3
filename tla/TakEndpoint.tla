---------------------------- MODULE TakEndpoint ----------------------------
(***************************************************************************)
(* What TakTcpTransport decides before it connects, the endpoint and how   *)
(* it is secured, and how CotFramer cuts what it receives into events.     *)
(*                                                                         *)
(* Ports are named for where they come from.  A stream is made of "<",     *)
(* which stands for the start of an event, and "/" and ">", which together *)
(* are its end and alone are other bytes; it arrives in chunks of a size.  *)
(***************************************************************************)
EXTENDS Naturals, Sequences, SequencesExt

CONSTANT MaxBytes   \* bound on the length of a stream

ConstantsOK == MaxBytes \in Nat

VARIABLE teQuery    \* the options of a transport, or a stream and its chunks

Schemes == {"none", "tls", "tcp", "other"}
Paths == {"none", "good", "bad"}

Queries ==
    [ask : {"endpoint"}, scheme : Schemes, embedded : {"none", "host", "garbage"},
     port : {"none", "option"}, tls : BOOLEAN, ca : Paths, cert : Paths, key : Paths,
     verify : BOOLEAN]
    \cup [ask : {"stream"}, bytes : SeqOf({"<", "/", ">"}, MaxBytes),
          size : 1..MaxBytes]

Init == teQuery \in Queries

-----------------------------------------------------------------------------
(* The endpoint: each step gives a set that is empty if it raises. *)

\* A scheme decides over the flag (ssl is tls); one that is not known is refused.
UsesTls(q) ==
    CASE q.scheme = "none" -> {q.tls}
      [] q.scheme = "tls" -> {TRUE}
      [] q.scheme = "tcp" -> {FALSE}
      [] q.scheme = "other" -> {}

\* _resolve_tak_endpoint: the option over the port in the host over the default.
Endpoint(q) ==
    IF q.embedded = "garbage" THEN {}
    ELSE {[tls |-> tls,
           port |-> IF q.port # "none" THEN "option"
                    ELSE IF q.embedded # "none" THEN "host"
                    ELSE IF tls THEN "default_tls" ELSE "default_plaintext"] : tls \in UsesTls(q)}

\* _require_file: a file that is missing, no file or not readable is refused.
Usable(path) == path \in {"none", "good"}

\* _build_ssl_context: certificate and key go together, and files must be readable.
SslContext(q) ==
    IF \/ (q.cert = "none") # (q.key = "none")
       \/ \E path \in {q.ca, q.cert, q.key} : ~Usable(path)
    THEN {}
    ELSE {[verified |-> q.verify, client |-> q.cert]}

\* TakTcpTransport.__init__: a transport, with a context if it is to use TLS.
Transport(q) ==
    UNION {IF e.tls THEN {[endpoint |-> e, context |-> {c}] : c \in SslContext(q)}
           ELSE {[endpoint |-> e, context |-> {}]} : e \in Endpoint(q)}

-----------------------------------------------------------------------------
(* CotFramer *)

Ends(buffer) == {i \in 2 .. Len(buffer) : buffer[i - 1] = "/" /\ buffer[i] = ">"}
FirstOf(S) == CHOOSE i \in S : \A j \in S : i <= j

\* What is left of a document that ended: from its start on, or nothing.
Event(raw) ==
    LET starts == {i \in DOMAIN raw : raw[i] = "<"}
    IN  IF starts = {} THEN <<>> ELSE <<SubSeq(raw, FirstOf(starts), Len(raw))>>

\* One turn of the loop of feed.
Cut(s) ==
    IF Ends(s.buffer) = {} THEN s
    ELSE LET end == FirstOf(Ends(s.buffer))
         IN  [buffer |-> SubSeq(s.buffer, end + 1, Len(s.buffer)),
              events |-> s.events \o Event(SubSeq(s.buffer, 1, end))]

\* feed: as many turns as there can be ends.
Feed(s, chunk) ==
    FoldLeft(LAMBDA t, i : Cut(t), [s EXCEPT !.buffer = @ \o chunk], [i \in 1..MaxBytes |-> i])

Chunks(q) ==
    LET end(k) == IF k * q.size > Len(q.bytes) THEN Len(q.bytes) ELSE k * q.size
    IN  [k \in 1..MaxBytes |-> SubSeq(q.bytes, (k - 1) * q.size + 1, end(k))]

\* A connection has a framer of its own.
Received(chunks) == FoldLeft(Feed, [buffer |-> <<>>, events |-> <<>>], chunks)

-----------------------------------------------------------------------------
(* Properties *)

\* No mistake in the options turns TLS off or goes unnoticed until it connects: a transport
\* is in plain text only if nothing asked for TLS, its certificate is never ignored, and it
\* looks for the server's unless it was told not to.
TlsAsAsked ==
    teQuery.ask = "endpoint" =>
        \A t \in Transport(teQuery) :
            /\ ~t.endpoint.tls => (\/ teQuery.scheme = "tcp"
                                   \/ teQuery.scheme = "none" /\ ~teQuery.tls)
            /\ t.endpoint.tls <=> t.context # {}
            /\ t.endpoint.port = "default_plaintext" => ~t.endpoint.tls
            /\ \A c \in t.context :
                   /\ c.client = teQuery.cert
                   /\ {c.client, teQuery.ca, teQuery.key} \subseteq {"none", "good"}
                   /\ ~c.verified => ~teQuery.verify

\* However the stream is cut into chunks the same events come out, and each runs from the
\* start of an event to the next end.
EventsWhole ==
    teQuery.ask = "stream" =>
        LET s == Received(Chunks(teQuery))
        IN  /\ s = Received(<<teQuery.bytes>>)
            /\ \A i \in DOMAIN s.events :
                   Head(s.events[i]) = "<" /\ Ends(s.events[i]) = {Len(s.events[i])}
=============================================================================
