---------------------------- MODULE StreamLayers ----------------------------
(***************************************************************************)
(* The layers WrapStream puts around a stream (internal/xio/stream.go):    *)
(* from the inside, ignoreeof, readbytes, cr/crnl/cr-or-lf and escape.     *)
(* The source hands out its bytes in pieces of any size and may grow after *)
(* its end; the sink takes any part of a write and may time out, after     *)
(* which the relay offers the rest again.  What arrives must not depend on *)
(* where the pieces were cut.                                              *)
(*                                                                         *)
(* Bytes: "r" is CR, "n" is LF, "e" the escape byte or, without escape,    *)
(* any other.                                                              *)
(***************************************************************************)
EXTENDS Naturals, Sequences, SequencesExt

CONSTANTS
    Octets,
    MaxBytes,       \* length of an input
    MaxBuffer,      \* size of the buffers of Read
    MaxDelay        \* the backoff of ignoreeof stops growing here

VARIABLES
    dir,            \* "read" or "write": the direction this behaviour is about
    cfg,            \* ending, limit (0: none), escape, ignore
    src, more,      \* bytes at the source, bytes it will get
    raw,            \* bytes read from it
    k,              \* the buffer of the current Read
    left,           \* of readbytes
    sawCR,          \* of cr-or-lf
    escaped,        \* was the escape byte seen?
    out, last,      \* bytes and last error returned
    delay, closed,
    pc,             \* "idle", "read", "backoff"
    win,            \* the bytes to write
    acked,          \* how many of them were acknowledged to the relay
    wr, upto,       \* progress and end of the current Write
    pendingLF,      \* CR of a CRLF written, LF not
    sink,
    wpc             \* "idle", "pending", "loop", "lf"

rvars == <<src, more, raw, k, left, sawCR, escaped, out, last, delay, closed, pc>>
wvars == <<win, acked, wr, upto, pendingLF, sink, wpc>>
vars == <<dir, cfg, src, more, raw, k, left, sawCR, escaped, out, last, delay, closed, pc,
          win, acked, wr, upto, pendingLF, sink, wpc>>

Inputs == BoundedSeq(Octets, MaxBytes)

\* applyReadBytes, applyLineTerm, applyEscape, newIgnoreEOFStream
WrapStream ==
    cfg \in [ending : {"none", "cr", "crnl", "crorlf"}, limit : {0, 2}, escape : BOOLEAN, ignore : BOOLEAN]

Init ==
    /\ WrapStream
    /\ dir \in {"read", "write"}
    /\ dir = "write" => cfg.limit = 0 /\ ~cfg.escape /\ ~cfg.ignore
    /\ \E in \in Inputs, cut \in 0 .. MaxBytes :
          IF dir = "read"
          THEN /\ cut <= Len(in)
               /\ src = SubSeq(in, 1, cut) /\ more = SubSeq(in, cut + 1, Len(in)) /\ win = <<>>
          ELSE cut = 0 /\ win = in /\ src = <<>> /\ more = <<>>
    /\ raw = <<>> /\ k = 0 /\ left = cfg.limit /\ sawCR = FALSE /\ escaped = FALSE
    /\ out = <<>> /\ last = "" /\ delay = 1 /\ closed = FALSE /\ pc = "idle"
    /\ acked = 0 /\ wr = 0 /\ upto = 0 /\ pendingLF = FALSE /\ sink = <<>> /\ wpc = "idle"

----------------------------------------------------------------------------
(* Reading.                                                                *)

Read ==
    /\ dir = "read"
    /\ pc = "idle"
    /\ k' \in 1 .. MaxBuffer
    /\ pc' = "read"
    /\ UNCHANGED <<dir, cfg, src, more, raw, left, sawCR, escaped, out, last, delay, closed, wvars>>

Return(err) ==
    /\ last' = err
    /\ pc' = "idle"

\* The escape byte was seen, or readbytes is used up: end of file from now on.
ReadStopped ==
    /\ pc = "read"
    /\ escaped \/ (cfg.limit # 0 /\ left = 0)
    /\ Return("eof")
    /\ UNCHANGED <<dir, cfg, src, more, raw, k, left, sawCR, escaped, out, delay, closed, wvars>>

Reading == pc = "read" /\ ~escaped /\ (cfg.limit = 0 \/ left > 0)
Least(a, b) == IF a < b THEN a ELSE b

\* crorlfReader: an LF right after a CR belongs to it, also across two pieces.
crorlfReader(chunk) ==
    LET after(i) == IF i = 1 THEN sawCR ELSE chunk[i - 1] = "r"
        keep == SelectSeq([i \in DOMAIN chunk |-> <<i, chunk[i]>>],
                          LAMBDA b : ~(b[2] = "n" /\ after(b[1])))
    IN  [i \in DOMAIN keep |-> IF keep[i][2] = "r" THEN "n" ELSE keep[i][2]]

crnlReader(chunk) == SelectSeq(chunk, LAMBDA b : b # "r")
crReader(chunk) == [i \in DOMAIN chunk |-> IF chunk[i] = "r" THEN "n" ELSE chunk[i]]

Converted(chunk) ==
    CASE cfg.ending = "none" -> chunk
      [] cfg.ending = "cr" -> crReader(chunk)
      [] cfg.ending = "crnl" -> crnlReader(chunk)
      [] cfg.ending = "crorlf" -> crorlfReader(chunk)

\* escapeReader: the bytes before the first escape byte of a piece.
Escapes(piece) == cfg.escape /\ \E i \in DOMAIN piece : piece[i] = "e"
BeforeEscape(piece) ==
    IF Escapes(piece)
    THEN SubSeq(piece, 1, (CHOOSE i \in DOMAIN piece : piece[i] = "e" /\ \A j \in 1 .. i - 1 : piece[j] # "e") - 1)
    ELSE piece

\* One read of the source, through all layers.  A piece of which the conversion
\* leaves nothing is followed by another read in the same call.
ReadPiece ==
    /\ Reading
    /\ ~closed
    /\ \E n \in 1 .. Len(src) :
          LET chunk == SubSeq(src, 1, n)
              piece == Converted(chunk)
              over == cfg.limit # 0 /\ left = n
          IN  /\ n <= k /\ (cfg.limit # 0 => n <= left)
              /\ src' = SubSeq(src, n + 1, Len(src))
              /\ raw' = raw \o chunk
              /\ left' = IF cfg.limit = 0 THEN left ELSE left - n
              /\ sawCR' = (chunk[n] = "r")
              /\ delay' = 1
              /\ out' = out \o BeforeEscape(piece)
              /\ escaped' = Escapes(piece)
              /\ IF piece = <<>> /\ ~over THEN UNCHANGED <<last, pc>>
                 ELSE Return(IF over \/ Escapes(piece) THEN "eof" ELSE "")
    /\ UNCHANGED <<dir, cfg, more, k, closed, wvars>>

\* The source is at its end.
ReadEnd ==
    /\ Reading
    /\ ~closed
    /\ src = <<>>
    /\ IF cfg.ignore THEN pc' = "backoff" /\ UNCHANGED last ELSE Return("eof")
    /\ UNCHANGED <<dir, cfg, src, more, raw, k, left, sawCR, escaped, out, delay, closed, wvars>>

ReadClosed ==
    /\ Reading \/ pc = "backoff"
    /\ closed
    /\ Return("closed")
    /\ UNCHANGED <<dir, cfg, src, more, raw, k, left, sawCR, escaped, out, delay, closed, wvars>>

\* ignoreEOFReader: the timer of the backoff.
Retry ==
    /\ pc = "backoff"
    /\ pc' = "read"
    /\ delay' = Least(delay * 2, MaxDelay)
    /\ UNCHANGED <<dir, cfg, src, more, raw, k, left, sawCR, escaped, out, last, closed, wvars>>

Grow ==
    /\ more # <<>>
    /\ src' = Append(src, Head(more))
    /\ more' = Tail(more)
    /\ UNCHANGED <<dir, cfg, raw, k, left, sawCR, escaped, out, last, delay, closed, pc, wvars>>

Close ==
    /\ dir = "read"
    /\ ~closed
    /\ closed' = TRUE
    /\ UNCHANGED <<dir, cfg, src, more, raw, k, left, sawCR, escaped, out, last, delay, pc, wvars>>

----------------------------------------------------------------------------
(* Writing.  Every inner write takes n bytes; short, or with an error, it  *)
(* ends the call.                                                          *)

crnl == cfg.ending \in {"crnl", "crorlf"}

Write ==
    /\ dir = "write"
    /\ wpc = "idle"
    /\ acked < Len(win)
    /\ upto' \in acked + 1 .. Len(win)
    /\ wpc' = IF pendingLF THEN "pending" ELSE "loop"
    /\ UNCHANGED <<dir, cfg, win, acked, wr, pendingLF, sink, rvars>>

Written(n) ==
    /\ acked' = acked + n
    /\ wr' = 0
    /\ wpc' = "idle"

\* crWriter, and no conversion: one byte for one.
WriteSame ==
    /\ wpc = "loop"
    /\ ~crnl
    /\ \E n \in 0 .. upto - acked :
          /\ sink' = sink \o [i \in 1 .. n |-> IF cfg.ending = "cr" /\ win[acked + i] = "n" THEN "r" ELSE win[acked + i]]
          /\ Written(n)
    /\ UNCHANGED <<dir, cfg, win, upto, pendingLF, rvars>>

\* crnlWriter: the LF that a former call owes.
WritePending ==
    /\ wpc = "pending"
    /\ \E n \in 0 .. 1, err \in BOOLEAN :
          IF n = 0 THEN Written(0) /\ UNCHANGED <<pendingLF, sink>>
          ELSE /\ sink' = Append(sink, "n")
               /\ pendingLF' = FALSE
               /\ IF err THEN Written(1)
                  ELSE wr' = 1 /\ wpc' = "loop" /\ UNCHANGED acked
    /\ UNCHANGED <<dir, cfg, win, upto, rvars>>

At == acked + wr
Plain == {i \in At + 1 .. upto : \A j \in At + 1 .. i : win[j] # "n"}

WriteRun ==
    /\ wpc = "loop" /\ crnl
    /\ Plain # {}
    /\ \E n \in 0 .. Cardinality(Plain), err \in BOOLEAN :
          /\ sink' = sink \o SubSeq(win, At + 1, At + n)
          /\ IF n < Cardinality(Plain) \/ err THEN Written(wr + n)
             ELSE wr' = wr + n /\ UNCHANGED <<acked, wpc>>
    /\ UNCHANGED <<dir, cfg, win, upto, pendingLF, rvars>>

\* Both bytes, one of them, none.
WriteCRLF ==
    /\ wpc = "loop" /\ crnl
    /\ At < upto /\ win[At + 1] = "n"
    /\ \E n \in 0 .. 2, err \in BOOLEAN :
          /\ sink' = sink \o SubSeq(<<"r", "n">>, 1, n)
          /\ pendingLF' = (n = 1)
          /\ CASE n = 2 /\ ~err -> wr' = wr + 1 /\ UNCHANGED <<acked, wpc>>
               [] n = 2 /\ err -> Written(wr + 1)
               [] n = 1 /\ ~err -> wpc' = "lf" /\ UNCHANGED <<acked, wr>>
               [] OTHER -> Written(wr)
    /\ UNCHANGED <<dir, cfg, win, upto, rvars>>

WriteLF ==
    /\ wpc = "lf"
    /\ \E n \in 0 .. 1, err \in BOOLEAN :
          IF n = 0 THEN Written(wr) /\ UNCHANGED <<pendingLF, sink>>
          ELSE /\ sink' = Append(sink, "n")
               /\ pendingLF' = FALSE
               /\ IF err THEN Written(wr + 1)
                  ELSE wr' = wr + 1 /\ wpc' = "loop" /\ UNCHANGED acked
    /\ UNCHANGED <<dir, cfg, win, upto, rvars>>

WriteDone ==
    /\ wpc = "loop" /\ crnl
    /\ At = upto
    /\ Written(wr)
    /\ UNCHANGED <<dir, cfg, win, upto, pendingLF, sink, rvars>>

Next ==
    \/ Read \/ ReadStopped \/ ReadPiece \/ ReadEnd \/ ReadClosed \/ Retry \/ Grow \/ Close
    \/ Write \/ WriteSame \/ WritePending \/ WriteRun \/ WriteCRLF \/ WriteLF \/ WriteDone

\* A Read goes on, and the timer of its backoff fires.
ReadGoesOn == ReadStopped \/ ReadPiece \/ ReadEnd \/ ReadClosed \/ Retry
Fairness == WF_vars(ReadGoesOn)

Spec == Init /\ [][Next]_vars /\ Fairness

----------------------------------------------------------------------------
(* The conversions of whole inputs.                                        *)

Decoded(s) ==
    LET keep == SelectSeq([i \in DOMAIN s |-> <<i, s[i]>>],
                          LAMBDA b : CASE cfg.ending = "crnl" -> b[2] # "r"
                                       [] cfg.ending = "crorlf" -> ~(b[2] = "n" /\ b[1] > 1 /\ s[b[1] - 1] = "r")
                                       [] OTHER -> TRUE)
    IN  [i \in DOMAIN keep |-> IF keep[i][2] = "r" /\ cfg.ending # "none" THEN "n" ELSE keep[i][2]]

Encoded(s) ==
    FlattenSeq([i \in DOMAIN s |->
        IF s[i] # "n" \/ cfg.ending = "none" THEN <<s[i]>>
        ELSE IF cfg.ending = "cr" THEN <<"r">> ELSE <<"r", "n">>])

\* However the source cuts its bytes into pieces, Read delivers the conversion of
\* what was read as a whole, up to the escape byte, and takes no more than
\* readbytes; end of file comes from the escape, the limit or the source alone.
\* However the sink cuts the writes, it holds the conversion of what was
\* acknowledged, and at most the CR that the next call completes.
LayersExact ==
    /\ out = BeforeEscape(Decoded(raw))
    /\ cfg.limit # 0 => Len(raw) <= cfg.limit
    /\ last = "eof" => escaped \/ (cfg.limit # 0 /\ left = 0) \/ ~cfg.ignore
    /\ sink = Encoded(SubSeq(win, 1, At)) \o (IF pendingLF THEN <<"r">> ELSE <<>>)

\* With ignoreeof a Read that waits at the end of the source returns when the
\* source grows by a byte that the conversion keeps, and when the stream is closed.
ReadDue == pc # "idle" /\ (closed \/ (Decoded(src) # <<>> /\ cfg.ending # "crorlf"))
=============================================================================
