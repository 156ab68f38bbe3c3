----------------------------- MODULE RemoteFiles -----------------------------
(***************************************************************************)
(* The files of a connection (connection_manager/remote_files.rs): what    *)
(* the file browser and the agents' write do to the directories of the     *)
(* server, one request after the other, next to other programs there; and  *)
(* the search of an agent through a file that grows (mcp/search.rs), one   *)
(* window after the other.                                                 *)
(***************************************************************************)
EXTENDS Naturals, FiniteSets, SequencesExt

CONSTANTS Names,      \* of entries
          Requests,   \* paths as they are asked for, with "." and ".."
          Tasks,      \* operations; also the temporary name each one uses
          Depth,      \* bound: of the directories
          MaxForeign, \* bound: entries of other programs
          First,      \* what the server has at first: the kind of each path
          Growth,     \* bound: length of the file that is searched
          Windows, Limits, Afters  \* scan_bytes, max_matches, after_lines

VARIABLES tree,     \* of each path: kind of the entry, and what it was made as
          busy,     \* a transfer of the connection runs
          task,     \* what each operation is doing
          foreign,  \* entries of other programs so far
          log,      \* the file that is searched
          scan

files == <<tree, busy, task, foreign>>
vars  == <<files, log, scan>>

Root == <<>>

\* normalize_remote_path.
Walk(path, part) ==
  CASE part = "."  -> path
    [] part = ".." -> IF path = Root THEN Root ELSE Front(path)
    [] OTHER       -> Append(path, part)
Normal(request) == FoldLeft(Walk, Root, request)

Parent(p) == Front(p)
Below(p, d) == IsPrefix(d, p)

\* resolve_remote_move_target.
MoveTarget(p, d) == Append(d, Last(p))
Idle == [op |-> "none", at |-> "idle", path |-> Root, target |-> Root, pending |-> <<>>,
         was |-> <<>>, undisturbed |-> FALSE]

NewScan ==
  [at : {"stat"}, offset : {0}, tail : BOOLEAN, window : Windows, limit : Limits, after : Afters,
   size : {0}, since : {0}, found : {{}}, shown : {{}}]

Init ==
  /\ tree \in First /\ busy \in BOOLEAN /\ task = [t \in Tasks |-> Idle] /\ foreign = 0
  /\ log = <<>> /\ scan \in NewScan
-----------------------------------------------------------------------------
\* The server.

There(p) == p = Root \/ p \in DOMAIN tree
Directory(p) == p = Root \/ (p \in DOMAIN tree /\ tree[p].kind = "dir")
Inside(p) == {q \in DOMAIN tree : Below(q, p) /\ Len(q) = Len(p) + 1}
Without(gone) == [q \in DOMAIN tree \ gone |-> tree[q]]

Makes(p, entry) ==
  /\ Len(p) <= Depth /\ ~There(p) /\ Directory(Parent(p))
  /\ tree' = [q \in DOMAIN tree \cup {p} |-> IF q = p THEN entry ELSE tree[q]]

CanRename(p, q) ==
  /\ p \in DOMAIN tree /\ Directory(Parent(q)) /\ ~There(q) /\ ~Below(q, p)

\* All that is below moves with it.
Renames(p, q) ==
  LET moved == {r \in DOMAIN tree : Below(r, p)}
      new(r) == q \o SubSeq(r, Len(p) + 1, Len(r))
      stays == DOMAIN tree \ moved
      old(s) == CHOOSE r \in moved : new(r) = s
  IN  /\ CanRename(p, q)
      /\ \A r \in moved : Len(new(r)) <= Depth
      /\ tree' = [s \in stays \cup {new(r) : r \in moved} |-> tree[IF s \in stays THEN s ELSE old(s)]]
-----------------------------------------------------------------------------
\* The operations, a request to the server at a time.

Goto(t, at) == [task EXCEPT ![t].at = at]
\* A change by anybody else disturbs the deletions that are going on.
Others(t, now) == [u \in Tasks |-> IF u = t THEN now[u] ELSE [now[u] EXCEPT !.undisturbed = FALSE]]

Ends(t, how) == [task EXCEPT ![t].at = how]

\* mutable_browser_sftp: a running transfer of the connection refuses the change.
Begin(t, op, path, target, at) ==
  /\ task[t].at = "idle" /\ path # Root
  /\ task' = [task EXCEPT ![t] = [Idle EXCEPT !.op = op, !.at = at, !.path = path, !.target = target,
               !.pending = <<[path |-> path, visited |-> FALSE]>>,
               !.was = IF op = "delete" THEN tree ELSE <<>>, !.undisturbed = op = "delete"]]
  /\ UNCHANGED <<tree, busy, foreign>>

CreateDirectory(t, d, n) == ~busy /\ Begin(t, "create", Append(d, n), Append(d, n), "look")

RenameEntry(t, p, n) ==
  /\ ~busy /\ p # Root /\ Last(p) # n
  /\ Begin(t, "rename", p, Append(Parent(p), n), "look")

MoveEntry(t, p, d) ==
  /\ ~busy /\ p # Root /\ Parent(p) # d
  /\ Begin(t, "move", p, MoveTarget(p, d), "source")

DeleteEntry(t, p) == ~busy /\ Begin(t, "delete", p, p, "visit")

\* write_remote_file_atomic, on a channel of its own.
WriteFile(t, p) == Begin(t, "write", p, p, "look")

\* move_remote_entry looks at both ends.
LookSource(t) ==
  /\ task[t].at = "source"
  /\ LET p == task[t].path
         d == Parent(task[t].target)
     IN  task' = IF ~There(p) \/ tree[p].kind = "link" \/ (Directory(p) /\ Below(d, p))
                 THEN Ends(t, "failed") ELSE Goto(t, "directory")
  /\ UNCHANGED <<tree, busy, foreign>>

LookDirectory(t) ==
  /\ task[t].at = "directory"
  /\ task' = IF Directory(Parent(task[t].target)) THEN Goto(t, "look") ELSE Ends(t, "failed")
  /\ UNCHANGED <<tree, busy, foreign>>

\* try_exists: an entry that is there is a conflict.
Look(t) ==
  /\ task[t].at = "look"
  /\ task' = IF There(task[t].target) THEN Ends(t, "failed")
             ELSE Goto(t, IF task[t].op = "write" THEN "create" ELSE "change")
  /\ UNCHANGED <<tree, busy, foreign>>

\* create_dir, or rename.
Change(t) ==
  /\ task[t].at = "change"
  /\ IF task[t].op = "create" THEN Makes(task[t].target, [kind |-> "dir", id |-> t])
     ELSE Renames(task[t].path, task[t].target)
  /\ task' = Others(t, Ends(t, "done"))
  /\ UNCHANGED <<busy, foreign>>

\* The server refuses a request, because it cannot do it or for another reason.
Refused(t) ==
  /\ task[t].at \in {"source", "directory", "look", "change", "visit", "list", "remove", "create"}
  /\ task' = [Ends(t, "failed") EXCEPT ![t].undisturbed = FALSE]
  /\ UNCHANGED <<tree, busy, foreign>>
-----------------------------------------------------------------------------
\* delete_remote_entry: what is in a directory before the directory.

Top(t) == Last(task[t].pending)

Popped(t) ==
  LET rest == Front(task[t].pending)
  IN  [task EXCEPT ![t].pending = rest, ![t].at = IF rest = <<>> THEN "done" ELSE "visit"]

Visit(t) ==
  /\ task[t].at = "visit"
  /\ LET p == Top(t).path
     IN  IF Top(t).visited
         THEN /\ Directory(p) /\ Inside(p) = {}
              /\ tree' = Without({p}) /\ task' = Others(t, Popped(t))
         ELSE /\ There(p) /\ task' = Goto(t, IF Directory(p) THEN "list" ELSE "remove")
              /\ UNCHANGED tree
  /\ UNCHANGED <<busy, foreign>>

Children(p) == SetToSeq({[path |-> q, visited |-> FALSE] : q \in Inside(p)})

\* Changed: the directory comes above what is in it.
ListLast(t) ==
  /\ task[t].at = "list" /\ Directory(Top(t).path)
  /\ task' = [Goto(t, "visit") EXCEPT ![t].pending =
                Front(@) \o Children(Top(t).path) \o <<[Top(t) EXCEPT !.visited = TRUE]>>]
  /\ UNCHANGED <<tree, busy, foreign>>

List(t) ==
  /\ task[t].at = "list" /\ Directory(Top(t).path)
  /\ task' = [Goto(t, "visit") EXCEPT ![t].pending =
                Front(@) \o <<[Top(t) EXCEPT !.visited = TRUE]>> \o Children(Top(t).path)]
  /\ UNCHANGED <<tree, busy, foreign>>

\* A link is deleted like a file.
RemoveFile(t) ==
  /\ task[t].at = "remove" /\ There(Top(t).path) /\ ~Directory(Top(t).path)
  /\ tree' = Without({Top(t).path}) /\ task' = Others(t, Popped(t))
  /\ UNCHANGED <<busy, foreign>>
-----------------------------------------------------------------------------
\* write_remote_file_atomic.

Temp(t) == Append(Parent(task[t].target), t)

CreateTemp(t) ==
  /\ task[t].at = "create" /\ Makes(Temp(t), [kind |-> "partial", id |-> t])
  /\ task' = Others(t, Goto(t, "write"))
  /\ UNCHANGED <<busy, foreign>>

\* The file stays open: what is written reaches it wherever it is.
WriteTemp(t) ==
  /\ task[t].at = "write"
  /\ \/ /\ tree' = [q \in DOMAIN tree |-> IF tree[q].id = t THEN [tree[q] EXCEPT !.kind = "file"] ELSE tree[q]]
        /\ task' = Others(t, Goto(t, "commit"))
     \/ UNCHANGED tree /\ task' = Goto(t, "discard")
  /\ UNCHANGED <<busy, foreign>>

\* Changed: a name that was taken meanwhile keeps the temporary file.
CommitOnce(t) ==
  /\ task[t].at = "commit"
  /\ \/ Renames(Temp(t), task[t].target) /\ task' = Others(t, Ends(t, "done"))
     \/ UNCHANGED tree /\ task' = Ends(t, "failed")
  /\ UNCHANGED <<busy, foreign>>

Commit(t) ==
  /\ task[t].at = "commit"
  /\ \/ Renames(Temp(t), task[t].target) /\ task' = Others(t, Ends(t, "done"))
     \/ UNCHANGED tree /\ task' = Goto(t, "discard")
  /\ UNCHANGED <<busy, foreign>>

\* Its own failure is ignored.
Discard(t) ==
  /\ task[t].at = "discard"
  /\ \/ There(Temp(t)) /\ tree' = Without({Temp(t)}) /\ task' = Others(t, Ends(t, "failed"))
     \/ UNCHANGED tree /\ task' = Ends(t, IF \E q \in DOMAIN tree : tree[q].id = t THEN "left" ELSE "failed")
  /\ UNCHANGED <<busy, foreign>>
-----------------------------------------------------------------------------
\* Others: programs of the server, and the transfers of the connection.  One that
\* begins later stops no change that has begun, nor does it touch these entries.

OtherProgram(p, kind) ==
  /\ foreign < MaxForeign /\ foreign' = foreign + 1
  /\ Makes(p, [kind |-> kind, id |-> <<foreign>>])
  /\ task' = [t \in Tasks |-> [task[t] EXCEPT !.undisturbed = FALSE]]
  /\ UNCHANGED busy

TransferEnds == busy /\ busy' = FALSE /\ UNCHANGED <<tree, task, foreign>>

\* Requests are made of a task that is free.
Asked(t) == IF task[t].at = "idle" THEN {Normal(r) : r \in Requests} ELSE {}

FilesNext ==
  \/ \E t \in Tasks : \E p \in Asked(t) :
       \/ DeleteEntry(t, p) \/ WriteFile(t, p)
       \/ \E n \in Names : CreateDirectory(t, p, n) \/ RenameEntry(t, p, n)
       \/ \E d \in Asked(t) : MoveEntry(t, p, d)
  \/ \E t \in Tasks :
       \/ LookSource(t) \/ LookDirectory(t) \/ Look(t) \/ Change(t) \/ Refused(t)
       \/ Visit(t) \/ List(t) \/ RemoveFile(t)
       \/ CreateTemp(t) \/ WriteTemp(t) \/ Commit(t) \/ Discard(t)
  \/ \E d \in {Root} \cup DOMAIN tree, n \in Names, kind \in {"dir", "file"} : OtherProgram(Append(d, n), kind)
  \/ TransferEnds
-----------------------------------------------------------------------------
\* The search: read_remote_file_window, and search_remote_text in the window.

\* metadata: what is added to the file from here on is not in this window.
Stat ==
  /\ scan.at = "stat" /\ scan' = [scan EXCEPT !.at = "read", !.size = Len(log)]
  /\ UNCHANGED <<files, log>>

Least(a, b) == IF a < b THEN a ELSE b

\* Lines of the file that start in from .. to - 1 and end there, or at the end
\* when it is the end of the file; the character before from is read as well.
Starts(from, to) ==
  {c \in from .. to - 1 : c = 0 \/ log[c] = "\n"}
Ended(c, to) == \E i \in c + 1 .. to : log[i] = "\n"
LineEnd(c, to) == CHOOSE n \in c .. to :
  /\ n = to \/ log[n + 1] = "\n"
  /\ \A i \in c + 1 .. n : log[i] # "\n"
Hit(c, to) == \E i \in c + 1 .. LineEnd(c, to) : log[i] = "q"

\* Changed: the search goes on behind the window, in the middle of a line.
NextWindow(lines, from, to) == to

\* The place behind the last line that was worked on.  No line: the line that the
\* window starts with, or all of a window that is within one line.
NextCursor(lines, from, to) ==
  IF lines # {}
  THEN LET last == CHOOSE c \in lines : \A d \in lines : d <= c
       IN  LineEnd(last, to) + (IF Ended(last, to) THEN 1 ELSE 0)
  ELSE IF Starts(from, to) # {} THEN CHOOSE c \in Starts(from, to) : \A d \in Starts(from, to) : c <= d
  ELSE to

Between(lines, c, d) == {x \in lines : c < x /\ x <= d}

\* The first matches, and the lines up to the context of the last one; a response
\* that is too long loses matches at its end, and goes on with the first of these.
Read ==
  LET from    == IF scan.tail THEN scan.size - Least(scan.size, scan.window) ELSE Least(scan.offset, scan.size)
      to      == from + Least(scan.size - from, scan.window)
      ends    == to >= scan.size
      whole   == {c \in Starts(from, to) : ends \/ Ended(c, to)}
      hits    == {c \in whole : Hit(c, to)}
      found   == {c \in hits : Cardinality(Between(hits, -1, c)) <= scan.limit}
      full    == Cardinality(found) >= scan.limit
      worked  == {c \in whole : full => \E d \in found : Cardinality(Between(whole, d, c)) <= scan.after}
      next    == NextCursor(worked, from, to)
  IN  /\ scan.at = "read"
      /\ \E kept \in SUBSET found :
           /\ found # {} => kept # {}
           /\ \A c \in kept, d \in found : d < c => d \in kept
           /\ LET cut == kept # found
                  goal == IF cut THEN CHOOSE c \in found \ kept : \A d \in found \ kept : c <= d ELSE next
              IN  scan' = [scan EXCEPT !.at = IF ~cut /\ goal >= scan.size THEN "done" ELSE "stat",
                             !.offset = goal, !.tail = FALSE, !.since = IF scan.tail THEN from ELSE @,
                             !.found = @ \cup kept,
                             !.shown = @ \cup {c \in worked : \E d \in kept : d < c /\ Cardinality(Between(worked, d, c)) <= scan.after}]
      /\ UNCHANGED <<files, log>>

\* The program that writes the file.
Grow ==
  /\ Len(log) < Growth /\ \E c \in {"q", "x", "\n"} : log' = Append(log, c)
  /\ UNCHANGED <<files, scan>>

ScanNext == Stat \/ Read \/ Grow

Next == (FilesNext /\ UNCHANGED <<log, scan>>) \/ ScanNext
Spec == Init /\ [][Next]_vars
-----------------------------------------------------------------------------
\* A deletion that nothing came between has deleted what is below its path, to
\* the last level, and nothing else (delete_remote_entry).
DeleteExact ==
  \A t \in Tasks : LET d == task[t] IN
    (d.undisturbed /\ d.at \in {"done", "failed"}) =>
      d.at = "done" /\ tree = [q \in {q \in DOMAIN d.was : ~Below(q, d.path)} |-> d.was[q]]

\* The agent's file appears under its name as a whole, and its temporary file is
\* gone when the call ends, wherever its directory was moved meanwhile, unless the
\* server could not find or delete it (write_remote_file_atomic).
WriteTidy ==
  /\ \A q \in DOMAIN tree : tree[q].kind = "partial" => Last(q) \in Tasks
  /\ \A t \in Tasks : task[t].op = "write" /\ task[t].at = "failed" => \A q \in DOMAIN tree : tree[q].id # t

\* Calls that go on at nextOffset until the end of the file have shown every line
\* with the text, wherever the windows, the limits of matches and the size of a
\* response cut the file, and whatever was added meanwhile; and name no other line
\* (search_remote_text, search_json_result).
SearchComplete ==
  /\ scan.at = "done" =>
       \A c \in Starts(scan.since, scan.size) : Hit(c, scan.size) => c \in scan.found \cup scan.shown
  /\ \A c \in scan.found : c \in Starts(0, Len(log)) /\ Hit(c, Len(log))

\* A call goes on, unless the next line is longer than its window.
SearchAdvances ==
  [][scan.at = "read" /\ scan'.at = "stat" /\ ~scan.tail =>
       scan'.offset > scan.offset \/ \A i \in scan.offset + 1 .. scan.offset + scan.window : log[i] # "\n"]_vars

\* Not so: that these calls find every line with the text (src/README.md:41).  The
\* lines shown after the last match of a call are not searched by any.
SearchFinds ==
  scan.at = "done" => \A c \in Starts(scan.since, scan.size) : Hit(c, scan.size) => c \in scan.found
=============================================================================
