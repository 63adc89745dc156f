---------------------------- MODULE MCHttpTurn -----------------------------
(* Small answers for HttpTurn.                                             *)
EXTENDS HttpTurn

Crlf == <<CR, LF>>

Chunk(bytes) == <<Len(bytes)>> \o Crlf \o bytes \o Crlf

(* A size line with a chunk extension.                                     *)
ExtendedChunk(bytes) == <<Len(bytes), Other>> \o Crlf \o bytes \o Crlf

LastChunkBytes == <<0>> \o Crlf \o Crlf

Answer(code, headers, clen, wire, payload, overflow) ==
  [status |-> code, header |-> headers, chunked |-> FALSE, clen |-> clen,
   wire |-> wire, payload |-> payload, chunks |-> <<>>, overflow |-> overflow]

Chunked(wire, payload, chunks) ==
  [Answer(200, 4, -1, wire, payload, FALSE) EXCEPT !.chunked = TRUE, !.chunks = chunks]

Size(at, size, off) == [at |-> at, size |-> size, off |-> off]

(* Bodies whose bytes look like framing.                                   *)
Body1 == <<2, CR, LF, 0>>
Body2 == <<LF, 3, Other>>

ChunkedAnswers ==
  { Chunked(Chunk(Body1) \o Chunk(Body2) \o LastChunkBytes, Body1 \o Body2,
            <<Size(0, 3, 0), Size(9, 3, 4), Size(17, 3, 7)>>),
    Chunked(ExtendedChunk(Body2) \o Chunk(<<0>>) \o LastChunkBytes, Body2 \o <<0>>,
            <<Size(0, 4, 0), Size(9, 3, 3), Size(15, 3, 4)>>),
    Chunked(<<0, 1>> \o Crlf \o <<7>> \o Crlf \o <<0>> \o Crlf, <<7>>,
            <<Size(0, 4, 0), Size(7, 3, 1)>>),
    Chunked(<<1>> \o Crlf \o <<5>> \o Crlf \o <<Minus, 1>> \o Crlf, <<5, 6>>,
            <<Size(0, 3, 0), Size(6, 4, 1)>>),
    [Chunked(Chunk(Body1) \o LastChunkBytes, Body1,
             <<Size(0, 3, 0), Size(9, 3, 4)>>) EXCEPT !.clen = 3] }

PlainAnswers ==
  { Answer(200, 4, 7, Body1 \o Body2, Body1 \o Body2, FALSE),
    Answer(200, 4, 0, <<>>, <<>>, FALSE) }

CloseDelimited == Answer(200, 4, -1, Body1 \o Body2, Body1 \o Body2, FALSE)

Errors ==
  { Answer(400, 4, 3, <<1, 2, 3>>, <<>>, TRUE),
    Answer(400, 4, 5, <<1, 2, 3, 4, 5>>, <<>>, FALSE),
    Answer(500, 4, 1, <<1>>, <<>>, FALSE),
    Answer(200, 0, -1, <<>>, <<>>, FALSE),
    Answer(200, 5, -1, <<>>, <<>>, FALSE) }

ChunkedError ==
  [Answer(400, 4, -1, Chunk(<<1, 2>>) \o LastChunkBytes, <<>>, TRUE) EXCEPT !.chunked = TRUE]

MCResponses == ChunkedAnswers \cup PlainAnswers \cup Errors \cup {CloseDelimited, ChunkedError}

=============================================================================
