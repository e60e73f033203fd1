----------------------------- MODULE LogViewer ------------------------------
(***************************************************************************)
(* The admin page's viewer of one log: class LogViewer, refreshLogStream   *)
(* and loadOlderLogs of web/js/admin.js, asking /api/admin/logs, while the *)
(* logging handlers of server/structured_logging.py write to the log and   *)
(* rotate it.  One refresh is under way at a time; pages of older lines    *)
(* are asked for besides it, and the admin changes the filter, reopens the *)
(* console or restarts the poller at any moment.                           *)
(*                                                                         *)
(* The page's layout, the level counts and the text filter (a second       *)
(* filter beside the level) are left out; "follow" and the scroll position *)
(* only choose whether a page is asked for and whether lines are trimmed.  *)
(***************************************************************************)
EXTENDS LogFile

CONSTANTS
  None,
  Lengths,         \* bytes of a line
  RotateAt,        \* maxBytes of the RotatingFileHandler
  MaxLines,        \* LOG_MAX_LINES, the limit a snapshot is asked for with
  PageLines,       \* LOG_PAGE_LINES
  HistoryMaxLines, \* LOG_HISTORY_MAX_LINES
  MaxWritten, MaxEvents, MaxPages  \* bounds of the model

ASSUME LogAssumption ==
  /\ None \notin Nat \cup {"all", "warn"}
  /\ Lengths \subseteq Nat \ {0}
  /\ {TailMaxBytes, PageChunkBytes, DeltaMaxBytes, RotateAt} \subseteq Nat \ {0}
  /\ DeltaMaxBytes <= PageChunkBytes
  /\ {MaxLines, PageLines, HistoryMaxLines, MaxWritten} \subseteq Nat \ {0}
  /\ {MaxEvents, MaxPages} \subseteq Nat

VARIABLES
  log,      \* the file, the number of rotations and of lines ever written
  view,     \* the viewer; "of", "shows" and "whole" are history, see Viewers
  refresh,  \* the refresh under way: what it asked and the answer, or None
  pages,    \* the pages of older lines under way
  events    \* what the admin did and requests that failed so far

vars == <<log, view, refresh, pages, events>>

Levels == {"all", "warn"}
LogLines ==
  [id : 0 .. MaxWritten, at : Nat, len : Lengths \cup {1}, level : {"info", "warn"},
   starts : BOOLEAN]

(***************************************************************************)
(* asked is _filterKey: the filter the cursor belongs to, None once it has *)
(* to be asked anew.  lines are those on screen, the first detached of     *)
(* them from before the rest.  History: of is the rotation the lines were  *)
(* read at and shows their filter; whole turns false when a page of        *)
(* another filter, or a delta after a reset, lands among them.             *)
(***************************************************************************)
Viewer ==
  [level |-> "all", asked |-> None, cursor |-> None, needsSnapshot |-> TRUE,
   lines |-> <<>>, before |-> None, detached |-> 0, loadingOlder |-> FALSE,
   of |-> 0, shows |-> None, whole |-> TRUE]

FirstLine == [id |-> 0, at |-> 0, len |-> 1, level |-> "info", starts |-> TRUE]

Init ==
  /\ log = [lines |-> {FirstLine}, size |-> EndOf(FirstLine), torn |-> {},
            rotations |-> 0, written |-> 1]
  /\ view = Viewer
  /\ refresh = None
  /\ pages = {}
  /\ events = 0

-----------------------------------------------------------------------------
(***************************************************************************)
(* The writer.  RotatingFileHandler moves the file away when the next line *)
(* would reach maxBytes.  A line of several bytes may be read half written.*)
(***************************************************************************)
Rotated(len) ==
  IF log.size + len >= RotateAt
  THEN [log EXCEPT !.lines = {}, !.size = 0, !.rotations = @ + 1]
  ELSE log
Line(at, len, level, starts) ==
  [id |-> log.written, at |-> at, len |-> len, level |-> level, starts |-> starts]
Begun(file, line) == [file EXCEPT !.torn = {line}, !.written = @ + 1]
Ended(file, line) ==
  [file EXCEPT !.torn = {}, !.lines = @ \cup {line}, !.size = EndOf(line)]

WriteLine ==
  /\ log.torn = {} /\ log.written < MaxWritten
  /\ \E level \in {"info", "warn"}, len \in Lengths :
       LET line == Line(Rotated(len).size, len, level, FALSE)
           file == Begun(Rotated(len), line)
       IN \/ log' = Ended(file, line)
          \/ len > 1 /\ log' = file
  /\ UNCHANGED <<view, refresh, pages, events>>

FinishLine ==
  /\ \E line \in log.torn : log' = Ended(log, line)
  /\ UNCHANGED <<view, refresh, pages, events>>

\* install_structured_logging of a process that starts with this log.
StartSession ==
  /\ log.torn = {} /\ log.written < MaxWritten
  /\ LET line == Line(Rotated(1).size, 1, "info", TRUE)
     IN log' = Ended(Begun(Rotated(1), line), line)
  /\ UNCHANGED <<view, refresh, pages, events>>

-----------------------------------------------------------------------------
\* What the setters of the viewer leave of it.  Each starts a new generation,
\* so that the pages under way are dropped when they arrive.
SetEntries(v, payload) ==
  [v EXCEPT !.lines = payload.entries, !.before = payload.before, !.detached = payload.detached,
            !.loadingOlder = FALSE]

ResetViewer(v) ==
  [v EXCEPT !.cursor = None, !.asked = None, !.lines = <<>>, !.before = None, !.detached = 0]

Stale(ps) == {[p EXCEPT !.stale = TRUE] : p \in ps}

AppendEntries(v, entries, stick) ==
  LET lines == v.lines \o entries
      trim == \/ stick /\ 2 * Len(lines) > 3 * MaxLines
              \/ Len(lines) > HistoryMaxLines + MaxLines
  IN [v EXCEPT !.lines = lines, !.needsSnapshot = @ \/ (entries # <<>> /\ trim)]

PrependEntries(v, entries, before) ==
  [v EXCEPT !.lines = entries \o SubSeq(@, v.detached + 1, Len(@)),
            !.detached = 0, !.before = before]

-----------------------------------------------------------------------------
(***************************************************************************)
(* refreshLogStream, at the interval or at once when something asks for    *)
(* it: a snapshot when one is needed, else the lines after the cursor.     *)
(***************************************************************************)
RefreshStarts ==
  /\ refresh = None
  /\ LET snapshot == view.needsSnapshot \/ view.cursor = None \/ view.asked # view.level
     IN /\ refresh' = [snapshot |-> snapshot, cursor |-> view.cursor, level |-> view.level,
                       answer |-> None, of |-> 0]
        /\ view' = [view EXCEPT !.needsSnapshot = @ /\ ~snapshot]
  /\ UNCHANGED <<log, pages, events>>

\* The server reads the log.
RefreshIsAnswered ==
  /\ refresh # None /\ refresh.answer = None
  /\ refresh' = [refresh EXCEPT
       !.answer = IF refresh.snapshot THEN Snapshot(log, refresh.level, MaxLines)
                  ELSE Delta(log, refresh.cursor, refresh.level),
       !.of = log.rotations]
  /\ UNCHANGED <<log, view, pages, events>>

\* An answer for another filter than the present one is dropped, and so is text.
Dropped == view.level # refresh.level \/ (refresh.snapshot /\ ~refresh.answer.json)

SnapshotArrives ==
  /\ refresh # None /\ refresh.answer # None /\ refresh.snapshot /\ ~Dropped
  /\ view' = [SetEntries(view, refresh.answer) EXCEPT
                !.cursor = refresh.answer.cursor, !.asked = refresh.level,
                !.of = refresh.of, !.shows = refresh.level, !.whole = TRUE]
  /\ pages' = Stale(pages)
  /\ refresh' = None
  /\ UNCHANGED <<log, events>>

DeltaArrives ==
  /\ refresh # None /\ refresh.answer # None /\ ~refresh.snapshot /\ ~Dropped
  /\ \E stick \in BOOLEAN :
       LET v == AppendEntries([view EXCEPT !.cursor = refresh.answer.cursor, !.asked = refresh.level],
                              refresh.answer.entries, stick)
       IN view' = [v EXCEPT !.needsSnapshot = @ \/ refresh.answer.restarted,
                            !.whole = @ /\ view.cursor # None]
  /\ refresh' = None
  /\ UNCHANGED <<log, pages, events>>

RefreshDropped ==
  /\ refresh # None /\ refresh.answer # None /\ Dropped
  /\ refresh' = None
  /\ UNCHANGED <<log, view, pages, events>>

RefreshFails ==
  /\ refresh # None /\ events < MaxEvents
  /\ refresh' = None
  /\ events' = events + 1
  /\ UNCHANGED <<log, view, pages>>

-----------------------------------------------------------------------------
(***************************************************************************)
(* loadOlderLogs: at the top of the console, or while it is too short to   *)
(* scroll.                                                                 *)
(***************************************************************************)
CanLoadOlder ==
  /\ ~view.loadingOlder
  /\ view.before # None /\ view.before > 0
  /\ Len(view.lines) < HistoryMaxLines

LoadOlder ==
  /\ CanLoadOlder /\ Cardinality(pages) < MaxPages
  /\ pages' = pages \cup {[level |-> view.level, before |-> view.before, stale |-> FALSE,
                           at |-> view.before, picked |-> <<>>, scanned |-> 0]}
  /\ view' = [view EXCEPT !.loadingOlder = TRUE]
  /\ UNCHANGED <<log, refresh, events>>

\* The server reads the next chunk back.
PageIsRead(p) ==
  /\ ~PageDone(p, PageLines)
  /\ pages' = (pages \ {p}) \cup {NextChunk(log, p, PageLines)}
  /\ UNCHANGED <<log, view, refresh, events>>

PageArrives(p) ==
  /\ PageDone(p, PageLines)
  /\ pages' = pages \ {p}
  /\ view' = IF p.stale THEN view
             ELSE IF p.level # view.level THEN [view EXCEPT !.loadingOlder = FALSE]
             ELSE [PrependEntries(view, p.picked, p.at)
                     EXCEPT !.loadingOlder = FALSE, !.whole = @ /\ p.level = view.shows]
  /\ UNCHANGED <<log, refresh, events>>

PageFails(p) ==
  /\ events < MaxEvents
  /\ events' = events + 1
  /\ pages' = pages \ {p}
  /\ view' = IF p.stale THEN view ELSE [view EXCEPT !.loadingOlder = FALSE]
  /\ UNCHANGED <<log, refresh>>

-----------------------------------------------------------------------------
\* The admin.
FiltersChange ==
  /\ events < MaxEvents /\ events' = events + 1
  /\ \E level \in Levels \ {view.level} :
       view' = [view EXCEPT !.level = level, !.asked = None]
  /\ UNCHANGED <<log, refresh, pages>>

\* requestLogSnapshot, when the console is opened or the panes are switched.
RequestSnapshot ==
  /\ events < MaxEvents /\ events' = events + 1
  /\ view' = [view EXCEPT !.needsSnapshot = TRUE]
  /\ UNCHANGED <<log, refresh, pages>>

\* The answer to a poller restart resets its viewer.
Reset ==
  /\ events < MaxEvents /\ events' = events + 1
  /\ view' = ResetViewer(view)
  /\ pages' = Stale(pages)
  /\ UNCHANGED <<log, refresh>>

Writes == WriteLine \/ FinishLine \/ StartSession
Refreshes ==
  \/ RefreshStarts \/ RefreshIsAnswered
  \/ SnapshotArrives \/ DeltaArrives \/ RefreshDropped \/ RefreshFails
Pages ==
  \/ LoadOlder
  \/ \E p \in pages : PageIsRead(p) \/ PageArrives(p) \/ PageFails(p)
Admin == FiltersChange \/ RequestSnapshot \/ Reset

Next == Writes \/ Refreshes \/ Pages \/ Admin

Spec == Init /\ [][Next]_vars

\* A write that began is carried through, setInterval starts a refresh again and
\* again, and a request is answered: the third conjunct is WF_vars(RefreshIsAnswered),
\* with what enables it written out.
FairSpec ==
  /\ Spec
  /\ WF_vars(FinishLine)
  /\ WF_vars(RefreshStarts)
  /\ []<>(refresh = None \/ refresh.answer # None)
  /\ WF_vars(SnapshotArrives \/ DeltaArrives \/ RefreshDropped)

-----------------------------------------------------------------------------
\* What is on screen was read at this file and by one filter.
InStep == view.before # None /\ view.whole /\ view.of = log.rotations

Files ==
  [lines : SUBSET LogLines, size : Nat, torn : SUBSET LogLines, rotations : Nat,
   written : 1 .. MaxWritten]
Viewers ==
  [level : Levels, asked : Levels \cup {None}, cursor : Nat \cup {None}, needsSnapshot : BOOLEAN,
   lines : Seq(LogLines), before : Nat \cup {None}, detached : Nat, loadingOlder : BOOLEAN,
   of : Nat, shows : Levels \cup {None}, whole : BOOLEAN]
Deltas == [entries : Seq(LogLines), cursor : Nat, restarted : BOOLEAN]
Snapshots ==
  [json : BOOLEAN, entries : Seq(LogLines), cursor : Nat, before : Nat, detached : Nat]
Requests ==
  [snapshot : BOOLEAN, cursor : Nat \cup {None}, level : Levels, of : Nat,
   answer : {None} \cup Deltas \cup Snapshots]
OlderPages ==
  [level : Levels, before : Nat \ {0}, stale : BOOLEAN, at : Nat, picked : Seq(LogLines),
   scanned : Nat]

\* Offsets are offsets, at most one line is torn, and the lines that are detached are
\* on screen.
TypeOK ==
  /\ log \in Files /\ Cardinality(log.torn) <= 1
  /\ view \in Viewers /\ view.detached <= Len(view.lines) /\ view.of <= log.rotations
  /\ refresh \in {None} \cup Requests
  /\ pages \in SUBSET OlderPages /\ Cardinality(pages) <= MaxPages
  /\ events \in 0 .. MaxEvents

\* The lines a delta does not skip.
Ordinary(lines) == {line \in lines : line.len <= DeltaMaxBytes}

\* The lines of s from the i-th on are those of a file from offset a to b that match
\* a level, each once and in the order of the file; long ones may be missing.
Shows(s, i, file, a, b, level) ==
  LET shown == {s[j] : j \in i .. Len(s)}
      those == Matching(Within(file, a, b), level)
  IN /\ shown \subseteq those /\ Ordinary(those) \subseteq shown
     /\ \A j, k \in i .. Len(s) : j < k => s[j].at < s[k].at

\* Snapshot, deltas and older pages fit together: what follows the detached lines is
\* what the log has between before and cursor, no line missing and none twice (the
\* older-page contract of query_log_entries, "a contiguous tail").  Lines longer than a
\* delta reads are excepted: a delta skips them.
ShowsTheLog ==
  InStep => Shows(view.lines, view.detached + 1, log, view.before, view.cursor, view.shows)

\* The detached lines are warnings from before the page that is asked for next, so that
\* it brings them again in order when prependEntries drops them.
DetachedComeAgain ==
  InStep => \A i \in 1 .. view.detached :
              /\ view.lines[i].level = "warn"
              /\ view.lines[i] \in Matching(Within(log, 0, view.before), view.shows)
              /\ i > 1 => view.lines[i - 1].at < view.lines[i].at

\* What the console shows is the log, in its order, from the first line shown to the
\* cursor.
ConsoleInOrder == TypeOK /\ ShowsTheLog /\ DetachedComeAgain

\* A page of older lines that is read to its end leads further back, but for a line that
\* fills a chunk (see ReadLogLinesBefore).
PagesLeadBack ==
  [][\A p \in pages :
       LET page == NextChunk(log, p, PageLines)
       IN PageIsRead(p) /\ PageDone(page, PageLines) =>
            \/ page.at < page.before
            \/ \E line \in log.lines : line.len >= PageChunkBytes]_vars

\* The console catches up: once nothing is written any more and the admin stops
\* clicking, it has read to the last line and shows the filter that is chosen.
FollowsTheLog ==
  <>[](view.cursor = log.size /\ view.shows = view.level)
=============================================================================
