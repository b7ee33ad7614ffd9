----------------------------- MODULE RowPaging -----------------------------
(***************************************************************************)
(* One result set read page by page: EXECUTE with its first rows, the      *)
(* define-fetch of LOB columns, continuation FETCHes, the decoding of each *)
(* page and what becomes of the server cursor, for the five readers of the *)
(* driver:                                                                 *)
(*   "rows"    Rows::next_batch and Rows::collect        (rows.rs)         *)
(*   "one"     query_one and query_opt                   (rows.rs, lib.rs) *)
(*   "stream"  OwnedRowStream                            (row_stream.rs)   *)
(*   "each"    Connection::for_each_row_ref, borrowed decoding with one    *)
(*             page of look-ahead                        (lib.rs)          *)
(*   "nested"  Connection::fetch_cursor on a REF CURSOR  (lib.rs)          *)
(*                                                                         *)
(* The server compresses: a column equal to the same column of the row it  *)
(* sent before may be left out and flagged in a bit vector, also across    *)
(* pages.  The reader therefore carries a seed, the last row it has seen.  *)
(* End of data is ORA-01403 at the end of a page, which may come with the  *)
(* last rows or only on a later, empty page.                               *)
(***************************************************************************)
EXTENDS Integers, Sequences, FiniteSets, SequencesExt

CONSTANTS
    Columns, Values,
    Null,        \* a NULL cell; one of Values
    NoRow,       \* None of Option<row>
    Kinds,       \* the readers of this instance
    MaxRows,     \* bound: rows of the table
    ArraySize,   \* rows asked for by one fetch
    Limit,       \* max_rows of fetch_cursor
    MaxEmpty,    \* bound: empty pages that do not end the data
    Usage        \* "redrive": next_batch dropped with its page on the wire,
                 \* and called again

ASSUME PagingAssumption ==
    /\ Null \in Values /\ NoRow \notin [Columns -> Values]
    /\ Kinds \subseteq {"rows", "one", "stream", "each", "nested"}
    /\ ArraySize \in Nat \ {0} /\ MaxRows \in Nat
    /\ Limit \in Nat /\ MaxEmpty \in Nat

VARIABLES
    table,     \* the rows of the query, fixed
    lob,       \* columns_require_define, fixed
    kind,      \* which reader, fixed
    cid,       \* cursor_id # 0: the statement has a server cursor, fixed; one
               \* that is no query may have none
    pos,       \* server: rows sent so far
    empties,   \* server: empty pages sent
    failed,    \* server: it answered with an error
    asked,     \* rows asked for by the request on the wire, or 0
    resp,      \* the messages of the response on the wire, or << >>
    pc,        \* where the reader is
    rd,        \* its batch, seed (previous_row), more_rows, held rows
    got,       \* rows handed to the caller
    result,    \* how the reader ended
    fate       \* the cursor: "none", "inuse", "cached", "closing", "lost"

fixed  == <<table, lob, kind, cid>>
server == <<pos, empties, failed>>
vars   == <<fixed, server, asked, resp, pc, rd, got, result, fate>>

Row == [Columns -> Values]
Tables == UNION {[1..n -> Row] : n \in 0..MaxRows}

-----------------------------------------------------------------------------
(* Decoding *)

\* the owned decoder: a duplicate column is copied from the row before it on
\* this page, or from the seed, and is an error when there is neither
ParseRowData(p, cells, seed) ==
    LET prev == IF p.rows # << >> THEN Last(p.rows) ELSE seed
    IN  IF \/ DOMAIN cells # Columns \ p.bits
           \/ p.bits # {} /\ prev = NoRow
        THEN [p EXCEPT !.ok = FALSE]
        ELSE [p EXCEPT
                 !.rows = Append(@, [c \in Columns |->
                              IF c \in p.bits THEN prev[c] ELSE cells[c]]),
                 !.bits = {}]

BugNeverEnds(code, rows) == TRUE

\* only ORA-01403 clears more_rows, however many rows the page has
MoreRows(code, rows) == code # "nodata"

NoPage == [rows |-> << >>, bits |-> {}, more |-> TRUE, ok |-> TRUE]

ParseEnd(p, code) == [p EXCEPT !.more = MoreRows(code, p.rows), !.ok = code # "fail"]

\* one message of a response; a bit vector is for the next row only
ParseMessage(p, m, seed) ==
    CASE ~p.ok -> p
      [] p.ok /\ m.type = "bits" -> [p EXCEPT !.bits = m.cols]
      [] p.ok /\ m.type = "row"  -> ParseRowData(p, m.cells, seed)
      [] OTHER                   -> ParseEnd(p, m.code)

\* parse_query_response: the messages one after the other
Parse(msgs, seed) ==
    LET after[k \in 0..Len(msgs)] ==
            IF k = 0 THEN NoPage ELSE ParseMessage(after[k - 1], msgs[k], seed)
    IN  after[Len(msgs)]

\* the borrowed decoder: with no row before it a duplicate column is NULL
BorrowedRow(p, cells, seed) ==
    LET prev == IF p.rows # << >> THEN Last(p.rows) ELSE seed
    IN  [p EXCEPT !.rows = Append(@, [c \in Columns |->
                      IF c \notin p.bits THEN cells[c]
                      ELSE IF prev = NoRow THEN Null ELSE prev[c]]),
                  !.bits = {}]

BorrowedMessage(p, m, seed) ==
    CASE ~p.ok -> p
      [] p.ok /\ m.type = "bits" -> [p EXCEPT !.bits = m.cols]
      [] p.ok /\ m.type = "row"  ->
            IF DOMAIN m.cells # Columns \ p.bits THEN [p EXCEPT !.ok = FALSE]
            ELSE BorrowedRow(p, m.cells, seed)
      [] OTHER                   -> ParseEnd(p, m.code)

ParseBorrowed(msgs, seed) ==
    LET after[k \in 0..Len(msgs)] ==
            IF k = 0 THEN NoPage ELSE BorrowedMessage(after[k - 1], msgs[k], seed)
    IN  after[Len(msgs)]

-----------------------------------------------------------------------------
(* The server (external).  It answers a request with some of the rows left, *)
(* perhaps compressed, and ends the data with ORA-01403 when none is left. *)

RowMessages(prev, row, compress) ==
    LET dup == IF compress /\ prev # NoRow
               THEN {c \in Columns : prev[c] = row[c]} ELSE {}
    IN  (IF dup = {} THEN << >> ELSE <<[type |-> "bits", cols |-> dup]>>)
        \o <<[type |-> "row", cells |-> [c \in Columns \ dup |-> row[c]]]>>

\* the n rows after the first `sent` ones, and the end of the page
Page(sent, n, compress, code) ==
    FlattenSeq([k \in 1..n |->
        RowMessages(IF sent + k = 1 THEN NoRow ELSE table[sent + k - 1],
                    table[sent + k], compress)])
    \o <<[type |-> "end", code |-> code]>>

Reply ==
    /\ asked # 0 /\ resp = << >>
    /\ \E n \in 0..asked, compress \in BOOLEAN, code \in {"ok", "nodata", "fail"} :
         /\ pos + n <= Len(table)
         /\ code = "nodata" => cid /\ pos + n = Len(table)
         /\ code = "fail" => n = 0
         /\ lob /\ pc = "execute" => n = 0 /\ code # "nodata"
         /\ n = 0 => ~compress
         /\ n = 0 /\ code = "ok" /\ ~(lob /\ pc = "execute") => empties < MaxEmpty
         /\ resp' = Page(pos, n, compress, code)
         /\ pos' = pos + n
         /\ empties' = IF n = 0 /\ code = "ok" /\ pc # "execute"
                       THEN empties + 1 ELSE empties
         /\ failed' = (code = "fail")
    /\ asked' = 0
    /\ UNCHANGED <<fixed, pc, rd, got, result, fate>>

-----------------------------------------------------------------------------
(* The reader's state *)

BugSeed(rows, old) == IF rows = << >> THEN NoRow ELSE Last(rows)

\* the seed of the next page; an empty page keeps the one there is
Seed(rows, old) == IF rows = << >> THEN old ELSE Last(rows)

\* from_result, apply_result, apply_page: the page replaces the batch
Apply(p) == [rd EXCEPT !.batch = p.rows, !.seed = Seed(p.rows, @), !.more = p.more]

\* Connection::release_cursor: back to the statement cache.  A cursor that
\* has been queued for closing stays queued.
ReleaseCursor == IF fate = "inuse" THEN "cached" ELSE fate

\* Connection::close_cursor
CloseCursor == IF fate = "inuse" THEN "closing" ELSE fate

\* close_cursor_on_error; the server owns a nested cursor
CloseOnError == IF kind = "nested" THEN fate ELSE CloseCursor

Done(how, f) == pc' = "done" /\ result' = how /\ fate' = f

\* a fetch starts from a clean wire: a response nobody read is drained
Send(n) == asked' = n /\ resp' = << >>
Quiet == asked = 0 /\ resp = << >>

\* fetch_cursor asks for no more than is left of its limit
FetchSize(fetched) ==
    IF kind = "nested"
    THEN IF Limit - fetched < 1 THEN 1
         ELSE IF Limit - fetched < ArraySize THEN Limit - fetched ELSE ArraySize
    ELSE ArraySize

Init ==
    /\ table \in Tables /\ lob \in BOOLEAN /\ kind \in Kinds
    /\ cid \in BOOLEAN /\ (cid \/ (table = << >> /\ ~lob /\ kind # "nested"))
    /\ pos = 0 /\ empties = 0 /\ failed = FALSE
    /\ resp = << >>
    /\ rd = [batch |-> << >>, seed |-> NoRow, more |-> TRUE, held |-> << >>,
             redriven |-> FALSE]
    /\ got = << >> /\ result = "none"
    /\ asked = FetchSize(0)
    /\ pc = (IF kind = "nested" THEN "define" ELSE "execute") /\ fate = "none"

-----------------------------------------------------------------------------
(* Opening *)

\* query_with, into_row_stream, for_each_row_ref: the EXECUTE response
FirstPage ==
    /\ pc = "execute" /\ resp # << >>
    /\ LET p == Parse(resp, NoRow)
           define == lob /\ kind # "each" /\ p.rows = << >>
       IN  IF ~p.ok
           THEN Done("error", fate) /\ resp' = << >> /\ UNCHANGED <<rd, asked>>
           ELSE /\ fate' = (IF cid THEN "inuse" ELSE fate) /\ UNCHANGED result
                /\ IF define
                   THEN pc' = "define" /\ Send(ArraySize) /\ UNCHANGED rd
                   ELSE /\ pc' = "ready" /\ rd' = Apply(p)
                        /\ resp' = << >> /\ UNCHANGED asked
    /\ UNCHANGED <<fixed, server, got>>

\* define_and_fetch_rows_with_columns, always without a seed
DefinePage ==
    /\ pc = "define" /\ resp # << >>
    /\ LET p == Parse(resp, NoRow)
       IN  IF p.ok
           THEN pc' = "ready" /\ rd' = Apply(p) /\ UNCHANGED <<result, fate>>
           ELSE /\ Done("error", CloseOnError)
                /\ UNCHANGED rd
    /\ resp' = << >>
    /\ UNCHANGED <<fixed, server, asked, got>>

-----------------------------------------------------------------------------
(* Continuation pages *)

Fetch(fetched) == pc' = "fetch" /\ Send(FetchSize(fetched)) /\ UNCHANGED <<result, fate>>

End(how) == Done(how, ReleaseCursor) /\ UNCHANGED <<asked, resp>>

\* Rows::collect, and a caller of next_batch that reads every batch.  Without a
\* cursor next_batch answers at once that there is no batch, and leaves more_rows
\* alone: the caller stops, the loop of collect goes round for ever.
CollectStep ==
    /\ pc = "ready" /\ kind = "rows"
    /\ got' = got \o rd.batch
    /\ rd' = [rd EXCEPT !.batch = << >>]
    /\ \/ rd.more /\ cid /\ Fetch(0)
       \/ ~(rd.more /\ cid) /\ End("end")
       \/ rd.more /\ ~cid /\ pc' = "spin" /\ UNCHANGED <<asked, resp, result, fate>>
    /\ UNCHANGED <<fixed, server>>

\* materialize_for_cardinality: the loop's condition, and the row kept
\* because next_batch replaces the batch
WantsMore(r) == Len(r.held) + Len(r.batch) < 2 /\ r.more /\ cid
Keep(r) == IF r.batch = << >> THEN r.held ELSE Append(r.held, Last(r.batch))

\* query_one and query_opt, up to their answer
OneStep ==
    /\ pc = "ready" /\ kind = "one"
    /\ IF WantsMore(rd)
       THEN rd' = [rd EXCEPT !.held = Keep(rd), !.batch = << >>] /\ Fetch(0)
            /\ UNCHANGED got
       ELSE LET rows == rd.held \o rd.batch
            IN  /\ rd' = [rd EXCEPT !.held = << >>, !.batch = rows]
                /\ IF rd.more \/ Len(rows) > 1 THEN End("toomany") /\ UNCHANGED got
                   ELSE IF rows = << >> THEN End("norows") /\ UNCHANGED got
                   ELSE End("one") /\ got' = rows
    /\ UNCHANGED <<fixed, server>>

\* OwnedRowStream::poll_next on a buffered page; an empty page that does not
\* end the data is followed by another fetch
StreamStep ==
    /\ pc = "ready" /\ kind = "stream"
    /\ IF rd.batch # << >>
       THEN /\ got' = Append(got, Head(rd.batch))
            /\ rd' = [rd EXCEPT !.batch = Tail(@)]
            /\ UNCHANGED <<asked, resp, pc, result, fate>>
       ELSE /\ IF rd.more /\ cid THEN Fetch(0) ELSE End("end")
            /\ UNCHANGED <<rd, got>>
    /\ UNCHANGED <<fixed, server>>

\* fetch_cursor: rows until the end or the limit; what is over is cut off
NestedStep ==
    /\ pc = "ready" /\ kind = "nested"
    /\ LET rows == got \o rd.batch
       IN  IF rd.more /\ Len(rows) < Limit
           THEN got' = rows /\ Fetch(Len(rows))
           ELSE got' = SubSeq(rows, 1, IF Len(rows) < Limit THEN Len(rows) ELSE Limit)
                /\ End("end")
    /\ rd' = [rd EXCEPT !.batch = << >>]
    /\ UNCHANGED <<fixed, server>>

\* for_each_row_ref: a callback per row, then the first request (after the
\* first page only), the page already asked for, or the end
EachStep ==
    /\ pc = "ready" /\ kind = "each"
    /\ IF rd.batch # << >>
       THEN /\ got' = Append(got, Head(rd.batch))
            /\ rd' = [rd EXCEPT !.batch = Tail(@)]
            /\ UNCHANGED <<asked, resp, pc, result, fate>>
       ELSE /\ CASE rd.more /\ cid /\ Quiet  -> Fetch(0)
                 [] rd.more /\ cid /\ ~Quiet -> pc' = "fetch" /\ UNCHANGED <<asked, resp, result, fate>>
                 [] OTHER -> End("end")
            /\ UNCHANGED <<rd, got>>
    /\ UNCHANGED <<fixed, server>>

\* fetch_rows_with_columns: an error closes the cursor (not a nested one);
\* next_batch releases it with the last page
FetchPage ==
    /\ pc = "fetch" /\ kind # "each" /\ resp # << >>
    /\ LET p == Parse(resp, rd.seed)
       IN  IF p.ok
           THEN /\ pc' = "ready" /\ rd' = Apply(p)
                /\ fate' = IF kind \in {"rows", "one"} /\ ~p.more THEN ReleaseCursor ELSE fate
                /\ UNCHANGED result
           ELSE /\ Done("error", CloseOnError)
                /\ UNCHANGED rd
    /\ resp' = << >>
    /\ UNCHANGED <<fixed, server, asked, got>>

BugLookAhead(p) == TRUE

\* the next page is asked for before the callbacks of this one run
LookAhead(p) == p.more

\* fetch_rows_ref_response, then fetch_rows_request for the page after it
EachPage ==
    /\ pc = "fetch" /\ kind = "each" /\ resp # << >>
    /\ LET p == ParseBorrowed(resp, rd.seed)
       IN  IF p.ok
           THEN /\ pc' = "ready" /\ rd' = Apply(p) /\ UNCHANGED <<result, fate>>
                /\ IF LookAhead(p) THEN Send(ArraySize) ELSE resp' = << >> /\ UNCHANGED asked
           ELSE /\ Done("error", CloseCursor)
                /\ resp' = << >> /\ UNCHANGED <<rd, asked>>
    /\ UNCHANGED <<fixed, server, got>>

-----------------------------------------------------------------------------
(* Interruptions *)

\* the deadline passes in flight: the wire is drained, the cursor is closed
Timeout ==
    /\ pc \in {"execute", "define", "fetch"} /\ kind \notin {"each", "nested"}
    /\ Done("timeout", IF pc = "execute" THEN fate ELSE CloseCursor)
    /\ asked' = 0 /\ resp' = << >>
    /\ UNCHANGED <<fixed, server, rd, got>>

\* the deadline has passed, or cancellation is seen, before a fetch is sent
BeforeStart ==
    /\ pc = "ready" /\ rd.more /\ cid /\ kind \notin {"nested", "each"}
    /\ Done("late", ReleaseCursor)
    /\ UNCHANGED <<fixed, server, asked, resp, rd, got>>

\* for_each_row_ref returns early: the callback fails, the fetch is cancelled
\* or the whole future is dropped; its guard closes the cursor
EachAborts ==
    /\ pc \in {"execute", "ready", "fetch"} /\ kind = "each"
    /\ Done("dropped", CloseCursor)
    /\ UNCHANGED <<fixed, server, asked, resp, rd, got>>

\* Rows, the stream or the future that opens or reads them is dropped.  Rows and
\* a stream at rest release the cursor; a stream's pending future owns the
\* connection and takes it along; no one lets go of the cursor of a query_with
\* that is dropped while its define is in flight.
Drop ==
    /\ kind # "each" /\ pc \in {"execute", "define", "ready", "fetch", "reclaim"}
    /\ CASE kind = "stream" /\ pc # "ready" -> Done("dropped", "lost")
         [] kind # "stream" /\ pc = "define" -> Done("abandoned", fate)
         [] OTHER                            -> Done("dropped", ReleaseCursor)
    /\ UNCHANGED <<fixed, server, asked, resp, rd, got>>

\* into_connection at rest, or with a fetch pending: BREAK, then the fetch is
\* awaited (Reclaimed).  When the BREAK cannot be sent the connection goes.
IntoConnection ==
    /\ kind = "stream" /\ pc \in {"ready", "fetch"}
    /\ \/ pc = "ready" /\ Done("reclaimed", ReleaseCursor)
       \/ pc = "fetch" /\ pc' = "reclaim" /\ UNCHANGED <<result, fate>>
       \/ pc = "fetch" /\ Done("failed", "lost")
    /\ UNCHANGED <<fixed, server, asked, resp, rd, got>>

\* the pending fetch ends with its page or as cancelled (which closes the
\* cursor), the wire is drained and the cursor is released; when the drain
\* fails the connection goes with it
Reclaimed ==
    /\ pc = "reclaim"
    /\ \/ /\ resp # << >>
          /\ Done("reclaimed", IF Parse(resp, rd.seed).ok THEN ReleaseCursor ELSE CloseCursor)
       \/ Done("reclaimed", CloseCursor)
       \/ Done("failed", "lost")
    /\ asked' = 0 /\ resp' = << >>
    /\ UNCHANGED <<fixed, server, rd, got>>

\* the future of next_batch is dropped in flight and Rows is used again: the
\* next request sends a BREAK and drains.  Safe when the BREAK comes before
\* the server has taken the page's rows.
Redrive ==
    /\ kind = "rows" /\ pc = "fetch"
    /\ ~rd.redriven                      \* bound: once
    /\ resp = << >> \/ "redrive" \in Usage
    /\ pc' = "ready" /\ asked' = 0 /\ resp' = << >>
    /\ rd' = [rd EXCEPT !.redriven = TRUE]
    /\ UNCHANGED <<fixed, server, got, result, fate>>

-----------------------------------------------------------------------------
Read == \/ FirstPage \/ DefinePage \/ FetchPage \/ EachPage
        \/ CollectStep \/ OneStep \/ StreamStep \/ NestedStep \/ EachStep
        \/ Reclaimed

Interrupt == Timeout \/ BeforeStart \/ EachAborts \/ Drop \/ IntoConnection \/ Redrive

Next == Reply \/ Read \/ Interrupt

\* the server answers what it is asked, and the caller reads on
Spec == Init /\ [][Next]_vars /\ WF_vars(Reply) /\ WF_vars(Read)

-----------------------------------------------------------------------------
(* Properties *)

Pcs == {"execute", "define", "ready", "fetch", "reclaim", "spin", "done"}

(* The state has its types, and no reader holds or has delivered more rows  *)
(* than the server sent.                                                    *)
TypeOK ==
    /\ pc \in Pcs /\ asked \in 0..ArraySize /\ pos \in 0..Len(table)
    /\ rd.seed \in Row \cup {NoRow} /\ rd.more \in BOOLEAN
    /\ \A s \in {got, rd.batch, rd.held} : s \in Seq(Row)
    /\ Len(got) + Len(rd.held) <= pos
    /\ fate \in {"none", "inuse", "cached", "closing", "lost"}

(* Rows arrive in order, once each and decompressed right: what the caller  *)
(* has, what is held for query_one and what is buffered is a prefix of the  *)
(* result set, whatever the server compressed and wherever the pages split  *)
(* (the seed of next_batch, apply_page, for_each_row_ref and fetch_cursor). *)
DeliveredPrefix ==
    pc # "done" => IsPrefix(got \o rd.held \o rd.batch, table)

(* A reader that reports the end has delivered every row: an empty page is  *)
(* not the end, and ORA-01403 on a page with rows does not lose them.       *)
EndMeansAll ==
    result = "end" =>
        got = IF kind = "nested" /\ Limit < Len(table) THEN SubSeq(table, 1, Limit) ELSE table

(* query_one's verdict on a query is about the table and not about          *)
(* more_rows: one row, none or too many exactly as the result set has       *)
(* (rows.rs materialize_for_cardinality).                                   *)
OneIsOne ==
    /\ result = "one" => Len(table) = 1 /\ got = table
    /\ result = "norows" => table = << >>
    /\ result = "toomany" /\ cid => Len(table) >= 2

(* A reader fails to decode only what the server failed to produce: the     *)
(* seed is there whenever a page starts compressed ("duplicate row data     *)
(* without previous row").                                                  *)
DecodesWhatIsSent == result = "error" => failed

(* A finished reader has let go of its cursor, unless its future was        *)
(* dropped in the define; one that failed or timed out with a call in       *)
(* flight has not put it back into the statement cache, and one that read   *)
(* to the end has (close_cursor_on_error).                                  *)
CursorFate ==
    pc = "done" /\ kind # "nested" =>
        /\ fate = "inuse" => result = "abandoned"
        /\ result \in {"error", "timeout"} => fate # "cached"
        /\ result \in {"end", "one", "norows", "toomany"} /\ cid => fate = "cached"

(* A reader that finished by itself leaves nothing on the wire: the         *)
(* look-ahead of for_each_row_ref never asks for a page past the end.       *)
NothingLeftUnread ==
    result \in {"end", "one", "norows", "toomany", "error", "reclaimed"} => Quiet

(* Every reader ends, except a collect that was given no cursor: no         *)
(* exchange of empty pages, look-ahead or cardinality check goes on for     *)
(* ever once the server has said ORA-01403.                                 *)
Terminates == cid \/ kind # "rows" => <>(pc = "done")

(* No answer makes the client hang (docs/FUZZING.md:5).  Not so: a first    *)
(* response with neither a cursor id nor ORA-01403 keeps collect in its     *)
(* loop (rows.rs:467-473).                                                  *)
NeverHangs == <>(pc = "done")

(* A cursor is in use only while a live cursor holds it (in_use_cursors,    *)
(* lib.rs:2887-2894).  Not so: see Drop.                                    *)
InUseIsHeld == pc = "done" => fate # "inuse"

-----------------------------------------------------------------------------
(* Each of the five readers delivers the result set: in order, once, to the *)
(* end, and with the right verdict on how many rows it has.                 *)
ReadsTheTable ==
    TypeOK /\ DeliveredPrefix /\ EndMeansAll /\ OneIsOne /\ DecodesWhatIsSent

(* However a reader ends, the cursor and the wire are as its ending says.   *)
LeavesNothingBehind == CursorFate /\ NothingLeftUnread
=============================================================================
