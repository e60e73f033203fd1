------------------------------ MODULE LogFile -------------------------------
(***************************************************************************)
(* The reads of a log file that server/admin_service.py answers an admin's *)
(* log viewer with: a snapshot of the end of the file, the lines added     *)
(* since a cursor, and a page of older lines before an offset.             *)
(*                                                                         *)
(* A log is the set of its complete lines, their bytes, and the line that  *)
(* is torn, of which the first byte is written, if there is one.  A line   *)
(* has the byte offset it begins at, its length with the newline, a level, *)
(* and whether it marks the start of a session.  Text that is not a whole  *)
(* line is never shown: a piece of a JSON line does not parse.             *)
(***************************************************************************)
EXTENDS Integers, Sequences, FiniteSetsExt

CONSTANTS
  TailMaxBytes,    \* ADMIN_LOG_TAIL_MAX_BYTES
  PageChunkBytes,  \* ADMIN_LOG_PAGE_CHUNK_BYTES
  DeltaMaxBytes    \* max_bytes of read_log_file_since

Lesser(a, b) == IF a < b THEN a ELSE b
Greater(a, b) == IF a > b THEN a ELSE b

EndOf(line) == line.at + line.len
LogSize(log) == log.size + Cardinality(log.torn)

\* The offset the first line of a set begins at, the n last of its lines, and all
\* of them in the order of the file.
First(lines) == Min({line.at : line \in lines})
LastOf(lines, n) ==
  {line \in lines : Cardinality({other \in lines : line.at < other.at}) < n}
InOrder(lines) ==
  [i \in 1 .. Cardinality(lines) |->
     CHOOSE line \in lines : Cardinality({other \in lines : other.at < line.at}) = i - 1]

\* Offsets just past a newline among the bytes from a up to b.
Breaks(log, a, b) == {n \in {EndOf(line) : line \in log.lines} : a < n /\ n <= b}

\* The lines that lie wholly between a and b.
Within(log, a, b) == {line \in log.lines : a <= line.at /\ EndOf(line) <= b}

Matching(lines, level) == {line \in lines : level = "all" \/ line.level = level}

(***************************************************************************)
(* _read_log_tail: where its complete lines begin and end.                 *)
(***************************************************************************)
ReadLogTail(log) ==
  LET size == LogSize(log)
      start == Greater(0, size - TailMaxBytes)
      breaks == Breaks(log, start, size)
  IN [from |-> IF start > 0 /\ breaks # {} THEN Min(breaks) ELSE start,
      to |-> IF breaks = {} THEN start ELSE Max(breaks)]

\* Mutant: the piece of a line a chunk begins with is taken for a line.
ReadLinesFromStart(log, before) ==
  LET upto == Lesser(before, LogSize(log))
      start == Greater(0, upto - PageChunkBytes)
  IN [lines |-> Within(log, start, upto), from |-> start]

(***************************************************************************)
(* read_log_lines_before: at most a chunk of lines that end by before.     *)
(* When the chunk holds no newline its beginning is returned, to skip past *)
(* a long line; a chunk whose one newline is its last byte returns before. *)
(***************************************************************************)
ReadLogLinesBefore(log, before) ==
  LET upto == Lesser(before, LogSize(log))
      start == Greater(0, upto - PageChunkBytes)
      breaks == Breaks(log, start, upto)
      from == IF start > 0 /\ breaks # {} THEN Min(breaks) ELSE start
  IN [lines |-> IF start > 0 /\ breaks = {} THEN {} ELSE Within(log, from, upto),
      from |-> from]

\* Mutant: a line longer than the limit is waited for.
ReadSinceWaiting(log, cursor) ==
  LET size == LogSize(log)
      from == IF cursor > size THEN 0 ELSE cursor
      breaks == Breaks(log, from, from + Lesser(size - from, DeltaMaxBytes))
  IN [from |-> from, to |-> IF breaks # {} THEN Max(breaks) ELSE from]

(***************************************************************************)
(* read_log_file_since: the complete lines after cursor, from the start of *)
(* the file when it has shrunk; a line longer than the limit is skipped.   *)
(***************************************************************************)
ReadLogFileSince(log, cursor) ==
  LET size == LogSize(log)
      from == IF cursor > size THEN 0 ELSE cursor
      upto == from + Lesser(size - from, DeltaMaxBytes)
      breaks == Breaks(log, from, upto)
  IN [from |-> from,
      to |-> IF breaks # {} THEN Max(breaks)
             ELSE IF size - from > DeltaMaxBytes THEN upto ELSE from]

(***************************************************************************)
(* query_log_entries with a cursor.                                        *)
(***************************************************************************)
Delta(log, cursor, level) ==
  LET read == ReadLogFileSince(log, cursor)
      lines == Within(log, read.from, read.to)
  IN [entries |-> InOrder(Matching(lines, level)), cursor |-> read.to,
      restarted |-> \E line \in lines : line.starts]

(***************************************************************************)
(* query_log_entries with before: chunk after chunk back from before until *)
(* limit lines match or TailMaxBytes are scanned.  Each chunk is read from *)
(* the file as it then is: a page is how far it has come back, the lines   *)
(* picked and the bytes scanned so far.                                    *)
(***************************************************************************)
PageDone(page, limit) ==
  page.at <= 0 \/ Len(page.picked) >= limit \/ page.scanned >= TailMaxBytes

\* Mutant: a chunk in which nothing matches leaves a page where it was.
ChunkOfMatches(log, page, limit) ==
  LET chunk == ReadLogLinesBefore(log, page.at)
      found == LastOf(Matching(chunk.lines, page.level), limit - Len(page.picked))
  IN [page EXCEPT !.at = IF found # {} THEN First(found) ELSE @,
                  !.picked = InOrder(found) \o @,
                  !.scanned = @ + Greater(1, page.at - chunk.from)]

NextChunk(log, page, limit) ==
  LET chunk == ReadLogLinesBefore(log, page.at)
      found == LastOf(Matching(chunk.lines, page.level), limit - Len(page.picked))
      full == Len(page.picked) + Cardinality(found) >= limit
  IN [page EXCEPT !.at = IF full THEN First(found) ELSE chunk.from,
                  !.picked = InOrder(found) \o @,
                  !.scanned = @ + Greater(1, page.at - chunk.from)]

(***************************************************************************)
(* query_log_entries without either: every matching warning of the session *)
(* as far as the tail reaches, and the newest routine lines there is room  *)
(* for.  Older pages continue before the contiguous end of these, and the  *)
(* warnings from further back are detached.  A tail without a JSON line is *)
(* answered as text.                                                       *)
(***************************************************************************)
Snapshot(log, level, limit) ==
  LET tail == ReadLogTail(log)
      raw == Within(log, tail.from, tail.to)
      starts == {EndOf(line) : line \in {l \in raw : l.starts}}
      from == IF starts = {} THEN tail.from ELSE Max(starts)
      found == Matching(Within(log, from, tail.to), level)
      important == {line \in found : line.level = "warn"}
      newest == LastOf(found \ important, limit)
      room == limit - Cardinality(important)
      cut == Cardinality(newest) >= limit \/ (room > 0 /\ Cardinality(newest) > room)
      routine == IF room > 0 THEN LastOf(newest, room) ELSE newest
      merged == LastOf(important \cup routine, limit)
      before == IF room > 0 /\ cut THEN First(routine)
                ELSE IF room <= 0 THEN First(merged) ELSE from
  IN [json |-> raw # {}, entries |-> InOrder(merged), cursor |-> tail.to, before |-> before,
      detached |-> Cardinality({line \in merged : line.at < before})]
=============================================================================
