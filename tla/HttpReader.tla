----------------------------- MODULE HttpReader -----------------------------
(***************************************************************************)
(* How an HTTP response is read (src/runtime/sprout_runtime.c): HttpReader, *)
(* fed the response buffer after every recv and once at end of file, and    *)
(* the chunk decoder that runs over the buffer when the read has ended.     *)
(*                                                                          *)
(* The peer's bytes are a sequence of tokens, each counted as one byte: a   *)
(* status line or a header line is one token, followed by its line end.     *)
(* Body bytes are "x", line ends and the hex digits of the chunk sizes.     *)
(***************************************************************************)
EXTENDS Integers, SequencesExt, Loops

CONSTANTS HrPlans,     \* what the peer sends: [head, chunks, body, eol, cut], see Stream
          HrLimits,    \* [header, body]: max_header_bytes and max_body_bytes
          HrSizeMax    \* SIZE_MAX, one less than a multiple of 16

VARIABLE hr   \* the exchange: plan, limits, flags, len received, the HttpReader, stopped, result

(* A peer sends a head and then either a raw body or chunks, each with a    *)
(* size line and line ends, and a last chunk; it may close after `cut`.     *)
HexDigit == [d \in {"0", "1", "2"} |-> IF d = "0" THEN 0 ELSE IF d = "1" THEN 1 ELSE 2]
SizeLine(n) == <<IF n = 1 THEN "1" ELSE "2">>
Encoded(chunks, eol) ==
  LET sent[k \in 0 .. Len(chunks)] ==
        IF k = 0 THEN <<>> ELSE sent[k - 1] \o SizeLine(Len(chunks[k])) \o eol \o chunks[k] \o eol
  IN sent[Len(chunks)] \o <<"0">> \o eol
Body(p) == IF p.body = "chunks" THEN Encoded(p.chunks, p.eol) ELSE p.raw
Stream(p) == LET all == p.head \o Body(p)
             IN SubSeq(all, 1, IF p.cut < Len(all) THEN p.cut ELSE Len(all))

\* The line that ends at h[k] is blank and not the first.
BlankAt(h, k) ==
  /\ h[k] = "LF"
  /\ \/ k > 1 /\ h[k - 1] = "LF"
     \/ k > 2 /\ h[k - 1] = "CR" /\ h[k - 2] = "LF"

(* A peer that frames its body in chunks does so properly: its head ends at *)
(* its only blank line, its chunks are not empty and the digit of the size  *)
(* says how long they are.  Of the others nothing is assumed.               *)
ASSUME HrAssumption ==
  /\ HrLimits \subseteq [header : Nat, body : Nat] /\ HrSizeMax \in Nat
  /\ \A p \in HrPlans : Stream(p) \in Seq(STRING)
  /\ \A p \in HrPlans : p.body = "chunks" =>
       /\ p.head \in Seq(STRING) \ {<<>>} /\ \A k \in 1 .. Len(p.head) : BlankAt(p.head, k) <=> k = Len(p.head)
       /\ p.eol \in {<<"LF">>, <<"CR", "LF">>} /\ p.cut \in Nat
       /\ p.chunks \in Seq(Seq(STRING)) /\ \A k \in 1 .. Len(p.chunks) : Len(p.chunks[k]) \in 1 .. 2

FreshReader == [scan |-> 1, lines |-> 0, head_done |-> FALSE, status |-> "none", body_start |-> 0,
                framing |-> "none", content_length |-> 0, fail |-> "none"]
HrInit ==
  hr \in [plan : HrPlans, limits : HrLimits, head_only : BOOLEAN, unclean : BOOLEAN,
          len : {0}, reader : {FreshReader}, stopped : {FALSE}, result : {<<"none", <<>>>>}]

-----------------------------------------------------------------------------
(* The head *)

Statuses == {"s200", "s204", "s404", "sbad"}
(* The framing headers of the head: unsupported encodings, chunked, and the *)
(* Content-Length values, of which all must agree.                          *)
Lengths(h) == {x \in Range(h) : x \in {"cl0", "cl1", "cl2", "clbad"}}
LengthOf == [x \in {"cl0", "cl1", "cl2"} |-> IF x = "cl0" THEN 0 ELSE IF x = "cl1" THEN 1 ELSE 2]
http_content_length(h) ==
  IF Lengths(h) = {} THEN <<"absent", 0>>
  ELSE IF Cardinality(Lengths(h)) > 1 \/ "clbad" \in Lengths(h) THEN <<"invalid", 0>>
  ELSE <<"valid", LengthOf[CHOOSE x \in Lengths(h) : TRUE]>>

Failed(r, why) == [r EXCEPT !.fail = why]

(* http_reader_parse_head, given the tokens of the head. *)
http_reader_parse_head(r, h, limits, head_only) ==
  LET st == h[1]
      s  == [r EXCEPT !.status = st]
      te == SelectSeq(h, LAMBDA x : x \in {"te", "tebad"})   \* the first one counts
      cl == http_content_length(h)
  IN IF st \notin Statuses \ {"sbad"} THEN Failed(r, "decode")
     ELSE IF st \in {"s404", "s204"} \/ head_only THEN [s EXCEPT !.framing = "none", !.head_done = TRUE]
     ELSE IF "ce" \in Range(h) THEN Failed(s, "decode")
     ELSE IF te # <<>> /\ te[1] = "te" THEN [s EXCEPT !.framing = "chunked", !.head_done = TRUE]
     ELSE IF te # <<>> \/ cl[1] = "invalid" THEN Failed(s, "decode")
     ELSE IF cl[2] > limits.body THEN Failed(s, "body_limit")
     ELSE [s EXCEPT !.framing = IF cl[1] = "valid" THEN "length" ELSE "close",
                    !.content_length = cl[2], !.head_done = TRUE]

(* A turn of the scan for the blank line: one line more, if all of it is    *)
(* there, or the blank one found (body_start set).                          *)
ScanTurn(s) ==
  LET r   == s.reader
      nls == {k \in r.scan .. Len(s.data) : s.data[k] = "LF"}
      nl  == CHOOSE k \in nls : \A j \in nls : k <= j
      content_end == IF nl > r.scan /\ s.data[nl - 1] = "CR" THEN nl - 1 ELSE nl
  IN IF r.body_start # 0 \/ nls = {} THEN s
     ELSE IF r.lines > 0 /\ content_end = r.scan THEN [s EXCEPT !.reader = [r EXCEPT !.body_start = nl + 1]]
     ELSE [s EXCEPT !.reader = [r EXCEPT !.lines = @ + 1, !.scan = nl + 1]]

\* Mutant: the part of an incomplete line that has arrived is skipped.
ScanHead_Forgets(r, data) ==
  LET s == After(ScanTurn, [reader |-> r, data |-> data], Len(data)).reader
  IN IF s.body_start = 0 THEN [s EXCEPT !.scan = Len(data) + 1] ELSE s
(* The scan, resumed at the first line not yet scanned; the line it stops   *)
(* at is blank or incomplete.                                               *)
ScanHead(r, data) == After(ScanTurn, [reader |-> r, data |-> data], Len(data)).reader

-----------------------------------------------------------------------------
(* The reader *)

(* The first half of http_reader_step: the head, unless it was read before. *)
ReadHead(r0, data, limits, head_only) ==
  LET scanned == ScanHead(r0, data)
      found   == scanned.body_start > 0
      size    == IF found THEN scanned.body_start - 1 ELSE Len(data)
  IN IF r0.head_done THEN r0
     ELSE IF size > limits.header THEN Failed(scanned, "header_limit")
     ELSE IF ~found THEN scanned
     ELSE http_reader_parse_head(scanned, SubSeq(data, 1, scanned.scan - 1), limits, head_only)

(* The second half: the reader after len bytes, and whether to stop. *)
Framed(r, len, limits) ==
  LET got == len - r.body_start + 1
  IN IF r.fail # "none" THEN <<r, TRUE>>
     ELSE IF ~r.head_done THEN <<r, FALSE>>
     ELSE IF r.framing = "none" \/ (r.framing = "length" /\ got >= r.content_length) THEN <<r, TRUE>>
     ELSE IF r.framing # "length" /\ got > limits.body THEN <<Failed(r, "body_limit"), TRUE>>
     ELSE <<r, FALSE>>

(* http_reader_step, after an append. *)
http_reader_step(r0, data, limits, head_only) ==
  Framed(ReadHead(r0, data, limits, head_only), Len(data), limits)

\* Mutant: a body shorter than its Content-Length passes.
http_reader_eof_Lenient(r, len, unclean) ==
  IF ~r.head_done THEN Failed(r, IF len = 0 THEN "no_response" ELSE "decode")
  ELSE IF r.framing = "close" /\ unclean THEN Failed(r, "incomplete") ELSE r
(* The peer closed after len bytes. *)
http_reader_eof(r, len, unclean) ==
  IF ~r.head_done THEN Failed(r, IF len = 0 THEN "no_response" ELSE "decode")
  ELSE IF r.framing = "length" /\ len - r.body_start + 1 < r.content_length THEN Failed(r, "incomplete")
  ELSE IF r.framing = "close" /\ unclean THEN Failed(r, "incomplete")
  ELSE r

-----------------------------------------------------------------------------
(* The chunk decoder *)

Eols == {"CR", "LF"}
\* The first position from i on whose token is not in S / is in S; Len + 1 if none.
Beyond(b, i, S) == LET K == {k \in i .. Len(b) : b[k] \notin S}
                   IN IF K = {} THEN Len(b) + 1 ELSE CHOOSE k \in K : \A j \in K : k <= j
Upto(b, i, S) == LET K == {k \in i .. Len(b) : b[k] \in S}
                 IN IF K = {} THEN Len(b) + 1 ELSE CHOOSE k \in K : \A j \in K : k <= j

\* The value of hex digits: -1 for a bad digit, -2 when it would overflow size_t.
HexValue(ds) ==
  LET value[k \in 0 .. Len(ds)] ==
        IF k = 0 THEN 0
        ELSE IF value[k - 1] < 0 THEN value[k - 1]
        ELSE IF ds[k] \notin DOMAIN HexDigit THEN -1
        ELSE IF value[k - 1] > HrSizeMax \div 16 THEN -2
        ELSE value[k - 1] * 16 + HexDigit[ds[k]]
  IN value[Len(ds)]

(* A chunk of the body s.body from position s.at on, after s.out. *)
ChunkTurn(s) ==
  LET b     == s.body
      start == Beyond(b, s.at, Eols)
      stop  == Upto(b, start, Eols \cup {";"})
      size  == HexValue(SubSeq(b, start, stop - 1))
      nl    == Upto(b, stop, {"LF"})
      data  == nl + 1
      after == data + size           \* just past the chunk's data
      left  == Len(b) - after + 1
      Ended(how) == [s EXCEPT !.verdict = how]
      GoOn(k)    == [s EXCEPT !.at = k, !.out = @ \o SubSeq(b, data, after - 1)]
  IN IF s.verdict # "more" THEN s
     ELSE IF start > Len(b) THEN Ended("incomplete")
     ELSE IF stop = start \/ size < 0 THEN Ended("decode")
     ELSE IF nl > Len(b) THEN Ended("incomplete")
     ELSE IF size = 0 THEN Ended("ok")
     ELSE IF left < 0 THEN Ended("incomplete")
     ELSE IF left >= 2 /\ b[after] = "CR" /\ b[after + 1] = "LF" THEN GoOn(after + 2)
     ELSE IF left >= 1 /\ b[after] = "LF" THEN GoOn(after + 1)
     ELSE IF left = 0 \/ (left = 1 /\ b[after] = "CR") THEN Ended("incomplete")
     ELSE Ended("decode")
http_decode_chunked_body(b) ==
  LET end == After(ChunkTurn, [body |-> b, at |-> 1, out |-> <<>>, verdict |-> "more"], Len(b) + 1)
  IN <<end.verdict, IF end.verdict = "ok" THEN end.out ELSE <<>>>>

-----------------------------------------------------------------------------
(* The result of a read that has ended: http_response_result *)
http_response_result(r, data) ==
  LET body == SubSeq(data, r.body_start, Len(data))
  IN IF r.fail # "none" THEN <<r.fail, <<>>>>
     ELSE IF r.status = "s404" THEN <<"bad_status", <<>>>>
     ELSE IF r.framing = "chunked" THEN http_decode_chunked_body(body)
     ELSE IF r.framing = "none" THEN <<"ok", <<>>>>
     ELSE IF r.framing = "length" /\ Len(body) > r.content_length
          THEN <<"ok", SubSeq(body, 1, r.content_length)>>
     ELSE <<"ok", body>>

-----------------------------------------------------------------------------
(* The exchange *)

Data(n) == SubSeq(Stream(hr.plan), 1, n)

recv(n) ==
  LET len == hr.len + n
      st  == http_reader_step(hr.reader, Data(len), hr.limits, hr.head_only)
  IN /\ ~hr.stopped /\ len <= Len(Stream(hr.plan))
     /\ hr' = [hr EXCEPT !.len = len, !.reader = st[1], !.stopped = st[2],
                         !.result = IF st[2] THEN http_response_result(st[1], Data(len)) ELSE @]

eof ==
  LET r == http_reader_eof(hr.reader, hr.len, hr.unclean)
  IN /\ ~hr.stopped /\ hr.len = Len(Stream(hr.plan))
     /\ hr' = [hr EXCEPT !.reader = r, !.stopped = TRUE, !.result = http_response_result(r, Data(hr.len))]

HrNext == eof \/ \E n \in 1 .. Len(Stream(hr.plan)) : recv(n)

HrSpec == HrInit /\ [][HrNext]_hr

-----------------------------------------------------------------------------
(* Properties *)

\* The outcome when all the bytes arrive in one piece.
InOnePiece ==
  LET data == Stream(hr.plan)
      st == http_reader_step(FreshReader, data, hr.limits, hr.head_only)
      r  == IF st[2] THEN st[1] ELSE http_reader_eof(st[1], Len(data), hr.unclean)
  IN http_response_result(r, data)

(* However recv cuts the bytes into pieces (inside a line end, between the  *)
(* head and the body, in a size line), the request has the same outcome.    *)
HttpSplitIndependent == hr.stopped => hr.result = InOnePiece

(* A response that was cut short is never reported as a success: an Ok      *)
(* chunked body is all the chunks and an Ok Content-Length body is as long  *)
(* as it says, whatever was lost; an Ok body never exceeds the limit.       *)
HttpBodyWhole == (hr.stopped /\ hr.result[1] = "ok") =>
  /\ (hr.reader.framing = "chunked" /\ hr.plan.body = "chunks") => hr.result[2] = FlattenSeq(hr.plan.chunks)
  /\ hr.reader.framing = "length" => Len(hr.result[2]) = hr.reader.content_length
  /\ (hr.reader.framing = "close" /\ hr.unclean) => FALSE
  /\ Len(hr.result[2]) <= hr.limits.body
=============================================================================
