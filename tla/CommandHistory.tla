--------------------------- MODULE CommandHistory ---------------------------
(***************************************************************************)
(* The history of commands (command_history_service.rs): rows of a SQLite  *)
(* table under one mutex, the deduplication setting, the import of   *)
(* files, and the pages a window reads one after the other while the table *)
(* changes under it.                                                  *)
(***************************************************************************)
EXTENDS Integers, FiniteSets

CONSTANTS Commands,
          Times,      \* milliseconds; a negative one is before 1970
          MaxId,      \* bound: rows ever inserted
          PageSize,   \* PAGE_SIZE, 100 in the code
          None

VARIABLES rows,       \* the table, of [id, command, time]
          nextId,     \* AUTOINCREMENT
          deduplicate,
          paging,     \* "none", "more", "end", or "refused" by parse_cursor
          cursor,     \* place the next page starts before
          listed,     \* identifiers of the pages read so far
          kept        \* rows there since the first of these pages

vars == <<rows, nextId, deduplicate, paging, cursor, listed, kept>>

Init ==
  /\ rows = {} /\ nextId = 1 /\ deduplicate = FALSE
  /\ paging = "none" /\ cursor = None /\ listed = {} /\ kept = {}

Newer(a, b) == a.time > b.time \/ (a.time = b.time /\ a.id > b.id)
Of(command, table) == {r \in table : r.command = command}
Newest(table) == {r \in table : \A o \in Of(r.command, table) : ~Newer(o, r)}
-----------------------------------------------------------------------------
\* The table.

Becomes(table) == rows' = table /\ kept' = kept \cap table /\ UNCHANGED <<paging, cursor, listed>>

UpdateDeduplication(enabled) ==
  /\ Becomes(IF enabled THEN Newest(rows) ELSE rows)
  /\ deduplicate' = enabled /\ UNCHANGED nextId

Add(command, now) ==
  /\ nextId <= MaxId /\ now >= 0
  /\ Becomes((IF deduplicate THEN rows \ Of(command, rows) ELSE rows)
               \cup {[id |-> nextId, command |-> command, time |-> now]})
  /\ nextId' = nextId + 1 /\ UNCHANGED deduplicate

\* Changed: an older row of the command is left.
InsertBeside(db, entry) ==
  IF deduplicate /\ \E r \in Newest(Of(entry.command, db.rows)) : r.time >= entry.time THEN db
  ELSE [rows |-> db.rows \cup {[id |-> db.next, command |-> entry.command, time |-> entry.time]},
        next |-> db.next + 1]

\* One entry of a file, under deduplication older than what the table has or not.
Insert(db, entry) ==
  LET same == IF deduplicate THEN Of(entry.command, db.rows) ELSE {}
  IN  IF \E r \in Newest(same) : r.time >= entry.time THEN db
      ELSE [rows |-> (db.rows \ same) \cup {[id |-> db.next, command |-> entry.command, time |-> entry.time]},
            next |-> db.next + 1]

Table == [rows |-> rows, next |-> nextId]

\* What a valid file makes of the table; any error in it rolls back, as if it had
\* not been read.
Import(db) == db.next <= MaxId + 1 /\ Becomes(db.rows) /\ nextId' = db.next /\ UNCHANGED deduplicate

Clear == Becomes({}) /\ UNCHANGED <<nextId, deduplicate>>
-----------------------------------------------------------------------------
\* The pages.

\* Changed: the next page starts at the time of the last row.
BeforeTime(r, place) == IF place = None THEN TRUE ELSE place.time > r.time

Before(r, place) == IF place = None THEN TRUE ELSE Newer(place, r)

\* The newest rows of a table (ORDER BY, LIMIT).
Take(n, table) == {r \in table : Cardinality({o \in table : Newer(o, r)}) < n}

\* parse_cursor refuses what is not a place of this history.
List(place) ==
  LET older == {r \in rows : Before(r, place)}
      page  == Take(PageSize, older)
      last  == CHOOSE r \in page : \A o \in page : ~Newer(r, o)
  IN  /\ kept' = (IF place = None THEN rows ELSE kept) /\ UNCHANGED <<rows, nextId, deduplicate>>
      /\ IF IF place = None THEN FALSE ELSE place.time < 0
         THEN paging' = "refused" /\ UNCHANGED <<cursor, listed>>
         ELSE /\ listed' = (IF place = None THEN {} ELSE listed) \cup {r.id : r \in page}
              /\ IF older = page THEN paging' = "end" /\ cursor' = None
                 ELSE paging' = "more" /\ cursor' = [id |-> last.id, time |-> last.time]

FirstPage == List(None)
NextPage == paging = "more" /\ List(cursor)
Entries == [command : Commands, time : Times]

Next ==
  \/ \E enabled \in BOOLEAN : UpdateDeduplication(enabled)
  \/ \E c \in Commands, t \in Times : Add(c, t)
  \/ \E a \in Entries : Import(Insert(Table, a))
  \/ \E a, b \in Entries : Import(Insert(Insert(Table, a), b))
  \/ Clear \/ FirstPage \/ NextPage
-----------------------------------------------------------------------------
\* While deduplication is on the history holds a command once, whatever was added
\* or imported before and since.
OnePerCommand == deduplicate => \A c \in Commands : Cardinality(Of(c, rows)) <= 1

\* Pages read to the end, rows added, replaced and removed between them, have
\* listed every row that was there all along.
PagesComplete == paging = "end" => \A r \in kept : r.id \in listed
=============================================================================
