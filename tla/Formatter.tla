----------------------------- MODULE Formatter -----------------------------
(***************************************************************************)
(* One response to a query: the choice of the format and its options       *)
(* (internal/formatter), the loop of writeRows, and the five writers with  *)
(* what each holds back until its buffer is full or it is flushed.         *)
(*                                                                         *)
(* The text of a response is a sequence of pieces.  In csv a piece is a    *)
(* cell or an end of line, since its buffer may be cut within a record; in *)
(* avro and in the tables a piece is a row.                                *)
(***************************************************************************)
EXTENDS Convert, Sequences, Folds

CONSTANTS
    Formats,  \* the requested formats: [name, opts], opts a sequence of
              \* options; a string is its sequence of fields between colons
    Results,  \* the results of queries: [cols, rows], cols their types
    NULL      \* the SQL null

ASSUME FormatterAssumption ==
    /\ \A f \in Formats : f.opts \in Seq(Seq(STRING) \ {<<>>})
    /\ \A r \in Results :
        /\ Len(r.cols) \in Nat /\ DOMAIN r.cols = 1 .. Len(r.cols)
        /\ Len(r.rows) \in Nat /\ DOMAIN r.rows = 1 .. Len(r.rows)
        /\ \A k \in DOMAIN r.rows : \A i \in DOMAIN r.cols :
              /\ r.cols[i] = "INTERVAL" => r.rows[k][i] \in Intervals \cup {NULL}
              /\ r.cols[i] \in {"HUGEINT", "UHUGEINT"} => r.rows[k][i] \in HugeInts \cup {NULL}
              /\ r.cols[i] = "UBIGINT" => r.rows[k][i] \in UInt64s \cup {NULL}

VARIABLES
    format, result,  \* the request and the rows DuckDB has for it
    pc,              \* where the handler is
    params, parsed,  \* the parameters, and how many options they are from
    null,            \* Writer.nullStr of csv
    ready,           \* the writer has its header
    read,            \* the rows read so far
    held,            \* pieces the writer holds back
    sent,            \* pieces given to the connection
    open,            \* rows and context have not been cancelled
    failed,          \* DuckDB failed to produce a row
    status           \* how the handler ended

vars == <<format, result, pc, params, parsed, null, ready, read, held, sent, open,
          failed, status>>

-----------------------------------------------------------------------------
(* The registry and the options.                                           *)

Tables    == {"table", "html", "markdown"}
factories == {"csv", "avro"} \cup Tables

ToLower(name) == IF name = "CSV" THEN "csv" ELSE name

\* What follows the first colon of an option, or the empty string.
Value(opt) == IF Len(opt) = 1 THEN <<"">> ELSE Tail(opt)

Text(s) == <<"text", s>>
Get(p, name, default) == IF name \in DOMAIN p THEN p[name] ELSE default

-----------------------------------------------------------------------------
(* Cells.                                                                  *)

\* The Avro types of the database types; the other types are refused.
AvroType == [
    BOOLEAN |-> "boolean", TINYINT |-> "int", SMALLINT |-> "int",
    INTEGER |-> "int", BIGINT |-> "long", UTINYINT |-> "int",
    USMALLINT |-> "int", UINTEGER |-> "long", UBIGINT |-> "fixed",
    FLOAT |-> "float", DOUBLE |-> "double", HUGEINT |-> "fixed",
    UHUGEINT |-> "fixed", DECIMAL |-> "bytes", VARCHAR |-> "string",
    BLOB |-> "bytes", BIGNUM |-> "string", UUID |-> "string",
    DATE |-> "int", TIME |-> "int", TIMETZ |-> "int", TIMESTAMP |-> "long",
    TIMESTAMPTZ |-> "long", TIMESTAMP_S |-> "long", TIMESTAMP_MS |-> "long",
    TIMESTAMP_NS |-> "long", INTERVAL |-> "long"]

Scalars == DOMAIN AvroType
Wide    == {"HUGEINT", "UHUGEINT", "UBIGINT"}
Zero    == [months |-> 0, days |-> 0, micros |-> 0]

\* The words of a nested value (a list, a struct, a map...), which is the sequence
\* of its elements, an element the sequence of its words.
Words(v) ==
    MapThenFoldSet(LAMBDA x, y : x \o y, <<>>, LAMBDA i : v[i], Min, DOMAIN v)

\* AnyToStr, which is fmt.Sprint.  A number is printed whole, a nested value with
\* the same space between two words and between two elements.
AnyToStr(type, v) ==
    CASE type \notin Scalars -> <<type, Words(v)>>
      [] type = "VARCHAR" -> Text(v)
      [] type \in Wide /\ v = 0 -> Text(<<"0">>)
      [] OTHER -> <<type, v>>

\* csv: times lose their fraction of a second; bytes are taken for text.
converter(type, v) ==
    CASE type = "INTERVAL" -> IF v = Zero THEN Text(<<"0">>) ELSE <<type, IntervalToStr(v)>>
      [] type \in {"TIME", "TIMESTAMP"} -> <<type, v.sec>>
      [] type = "BLOB" -> Text(v)
      [] OTHER -> AnyToStr(type, v)

\* Variant: an empty string is taken for a null.
CsvCellEmpty(type, v, nul) ==
    IF v = NULL \/ (type = "VARCHAR" /\ v = <<"">>) THEN nul ELSE converter(type, v)

CsvCell(type, v, nul) == IF v = NULL THEN nul ELSE converter(type, v)

convertFunc(type, v) ==
    CASE v = NULL -> NULL
      [] type = "UBIGINT" -> uint64ToDecimalBytes(v)
      [] type \in {"HUGEINT", "UHUGEINT"} -> hugeIntToDecimalBytes(v)
      [] OTHER -> v

-----------------------------------------------------------------------------
(* Pieces.                                                                 *)

Kind == ToLower(format.name)
Cols == DOMAIN result.cols

EndOfLine == <<"end of line">>
ErrorText == <<"error">>

HeaderPieces ==
    IF Kind = "csv" THEN [i \in Cols |-> <<"name", i>>] \o <<EndOfLine>>
    ELSE <<<<"header">>>>

Pieces(k, nul) ==
    LET row == result.rows[k] IN
    CASE Kind = "csv" ->
            [i \in Cols |-> <<k, CsvCell(result.cols[i], row[i], nul)>>] \o <<EndOfLine>>
      [] Kind = "avro" -> << <<k, [i \in Cols |-> convertFunc(result.cols[i], row[i])]>> >>
      [] OTHER -> << <<k, row>> >>

\* What a writer passes on of ps: csv any part of it, when its buffer is full;
\* avro all of it, when its block is; the tables nothing before Flush.
Spilt(ps) ==
    CASE Kind = "csv"  -> 0 .. Len(ps)
      [] Kind = "avro" -> {0, Len(ps)}
      [] OTHER -> {0}

Pass(ps, n) ==
    /\ sent' = sent \o SubSeq(ps, 1, n)
    /\ held' = SubSeq(ps, n + 1, Len(ps))

-----------------------------------------------------------------------------
Init ==
    /\ format \in Formats /\ result \in Results
    /\ pc = "find" /\ params = <<>> /\ parsed = 0 /\ null = Text(<<"NULL">>)
    /\ ready = FALSE /\ open = TRUE /\ failed = FALSE
    /\ read = 0 /\ held = <<>> /\ sent = <<>>
    /\ status = "none"

End(how) == pc' = "done" /\ status' = how

\* SplitN at the first colon: the name, and the rest with its colons.  An
\* option without a name is skipped; a later one replaces an earlier one.
option ==
    /\ pc = "find" /\ parsed < Len(format.opts)
    /\ parsed' = parsed + 1
    /\ LET o == format.opts[parsed'] IN
         params' = IF Head(o) = "" THEN params ELSE
             [k \in DOMAIN params \cup {Head(o)} |-> IF k = Head(o) THEN Value(o) ELSE params[k]]
    /\ UNCHANGED <<format, result, pc, null, ready, read, held, sent, open, failed, status>>

FindAndCreate ==
    /\ pc = "find" /\ parsed = Len(format.opts)
    /\ Kind \in factories
    /\ null' = Text(Get(params, "null", <<"NULL">>))
    /\ pc' = "header"
    /\ UNCHANGED <<format, result, params, parsed, ready, read, held, sent, open, failed, status>>

unsupported ==
    /\ pc = "find" /\ parsed = Len(format.opts)
    /\ Kind \notin factories
    /\ End("400")
    /\ UNCHANGED <<format, result, params, parsed, null, ready, read, held, sent, open, failed>>

\* The request is interrupted; database/sql will close the rows.
cancel ==
    /\ pc # "done" /\ open
    /\ open' = FALSE
    /\ UNCHANGED <<format, result, pc, params, parsed, null, ready, read, held, sent, failed, status>>

WriteHeader ==
    /\ pc = "header" /\ open
    /\ Kind = "avro" => \A i \in Cols : result.cols[i] \in DOMAIN AvroType
    /\ ready' = TRUE
    /\ IF Kind = "avro" THEN Pass(HeaderPieces, 1)
       ELSE \E n \in Spilt(HeaderPieces) : Pass(HeaderPieces, n)
    /\ pc' = "next"
    /\ UNCHANGED <<format, result, params, parsed, null, read, open, failed, status>>

headerError ==
    /\ pc = "header"
    /\ Kind = "avro" /\ \E i \in Cols : result.cols[i] \notin DOMAIN AvroType
    /\ pc' = "error"
    /\ UNCHANGED <<format, result, params, parsed, null, ready, read, held, sent, open, failed, status>>

\* ctx.Err is asked before and after the header and for every row.
canceled ==
    /\ pc \in {"header", "next"} /\ ~open
    /\ read = 0 \/ read < Len(result.rows)
    /\ pc' = "error"
    /\ UNCHANGED <<format, result, params, parsed, null, ready, read, held, sent, open, failed, status>>

NextRow ==
    /\ pc = "next" /\ open
    /\ read < Len(result.rows)
    /\ read' = read + 1
    /\ pc' = "body"
    /\ UNCHANGED <<format, result, params, parsed, null, ready, held, sent, open, failed, status>>

\* Variant: the tables keep the slice of values that writeRows fills again.
WriteBodyAlias ==
    /\ pc = "body" /\ ready
    /\ LET ps == held \o Pieces(read, null) IN
         IF Kind \in Tables
           THEN /\ held' = [i \in DOMAIN ps |-> IF i = 1 THEN ps[1] ELSE ps[Len(ps)]]
                /\ UNCHANGED sent
           ELSE \E n \in Spilt(ps) : Pass(ps, n)
    /\ pc' = "next"
    /\ UNCHANGED <<format, result, params, parsed, null, ready, read, open, failed, status>>

WriteBody ==
    /\ pc = "body" /\ ready
    /\ LET ps == held \o Pieces(read, null) IN \E n \in Spilt(ps) : Pass(ps, n)
    /\ pc' = "next"
    /\ UNCHANGED <<format, result, params, parsed, null, ready, read, open, failed, status>>

\* The encoder refuses a value, or the connection a write.
writeError ==
    /\ pc \in {"header", "body", "flush"}
    /\ pc' = "error"
    /\ UNCHANGED <<format, result, params, parsed, null, ready, read, held, sent, open, failed, status>>

\* rows.Next is false after the last row, and when the rows were closed.
rowsEnd ==
    /\ pc = "next"
    /\ read = Len(result.rows) \/ ~open
    /\ pc' = "flush"
    /\ UNCHANGED <<format, result, params, parsed, null, ready, read, held, sent, open, failed, status>>

\* rows.Next is false because DuckDB failed to produce the next row; rows.Err
\* is not asked, so this ends as the last row does.
nextError ==
    /\ pc = "next"
    /\ read < Len(result.rows)
    /\ failed' = TRUE
    /\ pc' = "flush"
    /\ UNCHANGED <<format, result, params, parsed, null, ready, read, held, sent, open, status>>

Flush ==
    /\ pc = "flush"
    /\ Pass(held, Len(held))
    /\ End("200")
    /\ UNCHANGED <<format, result, params, parsed, null, ready, read, open, failed>>

\* Variant: the writer is flushed after the text of the error.
errorThenFlush ==
    /\ pc = "error"
    /\ sent' = sent \o <<ErrorText>> \o held /\ held' = <<>>
    /\ End("error")
    /\ UNCHANGED <<format, result, params, parsed, null, ready, read, open, failed>>

\* httperror.Write: the status is out, the text is appended; what the writer
\* holds is dropped with it.  A peer that is gone receives nothing.
error ==
    /\ pc = "error"
    /\ sent' = Append(sent, ErrorText) /\ held' = <<>>
    /\ End("error")
    /\ UNCHANGED <<format, result, params, parsed, null, ready, read, open, failed>>

Finished == pc = "done" /\ UNCHANGED vars

Next ==
    \/ option \/ FindAndCreate \/ unsupported \/ cancel \/ WriteHeader
    \/ headerError \/ canceled \/ NextRow \/ WriteBody \/ writeError \/ rowsEnd
    \/ nextError \/ Flush \/ error \/ Finished

Spec == Init /\ [][Next]_vars

-----------------------------------------------------------------------------
\* The null text of the last option named null, and the text of the result:
\* the pieces of the header, then as many for every row.
NullText ==
    LET o  == format.opts
        at == {i \in DOMAIN o : o[i][1] = "null"}
    IN  Text(IF at = {} THEN <<"NULL">> ELSE Value(o[Max(at)]))

Width == Len(HeaderPieces)

Whole ==
    [j \in 1 .. Width * (Len(result.rows) + 1) |->
        LET k == (j - 1) \div Width
            i == 1 + ((j - 1) % Width)
        IN  IF k = 0 THEN HeaderPieces[i] ELSE Pieces(k, NullText)[i]]

\* A response of a query that nobody stopped and all whose rows DuckDB could
\* produce, that ends without the text of an error, is the whole result: the
\* header, then every row once, in order, and in csv with the null text of the
\* last option that gives one.
CompleteOrMarked ==
    status = "200" /\ open /\ ~failed => sent = Whole /\ held = <<>>

\* Whatever fails, the client receives a beginning of the whole text, with
\* the text of an error after it and nothing behind that.
PrefixThenError ==
    LET n == Len(sent)
        m == IF n > 0 /\ sent[n] = ErrorText THEN n - 1 ELSE n
    IN  /\ m <= Len(Whole) /\ SubSeq(sent, 1, m) = SubSeq(Whole, 1, m)
        /\ m < n <=> status = "error"

Same(type, v, w) ==
    \/ v = w
    \/ type \in {"TIME", "TIMESTAMP"} /\ NULL \notin {v, w} /\ v.sec = w.sec
    \/ NULL \in {v, w} /\ \E u \in {v, w} : u # NULL /\ converter(type, u) = null

\* Two values of a column of a scalar type look the same in csv only when they
\* differ in the fraction of a second, or one is null and the other prints as
\* the null text.  Nested values may look the same for other reasons.
CsvDistinguishes ==
    Kind = "csv" => \A i \in Cols : \A j, k \in 1..read :
        LET type == result.cols[i]
            v    == result.rows[j][i]
            w    == result.rows[k][i]
        IN  type \in Scalars /\ CsvCell(type, v, null) = CsvCell(type, w, null) =>
                Same(type, v, w)

\* The wide integers of an Avro row are the ones of the result.
AvroExact ==
    Kind = "avro" => \A k \in 1..read : \A i \in Cols :
        LET v == result.rows[k][i] IN
        result.cols[i] \in Wide /\ v # NULL =>
            Decimal(convertFunc(result.cols[i], v)) = v

\* The text of an interval adds up to the interval, and no count in it is
\* as large as the next unit.
IntervalSums ==
    \A k \in 1..read : \A i \in Cols :
        LET v == result.rows[k][i]
            t == IntervalToStr(v)
        IN  result.cols[i] = "INTERVAL" /\ v # NULL =>
                /\ Summed(t) = v
                /\ t.m * Min1 \in -Hour + 1 .. Hour - 1
                /\ t.s * Sec \in -Min1 + 1 .. Min1 - 1
                /\ t.ms * Msec \in -Sec + 1 .. Sec - 1
                /\ t.us \in -Msec + 1 .. Msec - 1
                /\ t.mo \in -11 .. 11

=============================================================================
