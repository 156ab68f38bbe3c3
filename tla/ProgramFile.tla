------------------------------ MODULE ProgramFile ------------------------------
(***************************************************************************)
(* How one program file of an installed directory is replaced or deleted   *)
(* (broker/installation/files.rs), next to programs that may do with the   *)
(* directory and its files what the handles of the installation let them.  *)
(* A name refers to a file object; an object can have more names.          *)
(***************************************************************************)
EXTENDS Naturals, FiniteSets

CONSTANTS Objects,   \* file objects there can be: each is used once
          None

VARIABLES plain,     \* the last directory of the path is no link to somewhere else
          guard,     \* it holds the installation's own entry
          entry,     \* object of the program's name
          content,   \* of each object: none, old, partial, new, foreign
          linked,    \* objects with a name in another directory
          busy,      \* objects that another program runs
          step,      \* of the installation
          held,      \* the object it has open: others can neither write nor delete it
          temp       \* its temporary file

disk == <<entry, content, linked>>
vars == <<plain, guard, disk, busy, step, held, temp>>

Init ==
  /\ plain \in BOOLEAN /\ guard = FALSE /\ step = "start" /\ held = None /\ temp = None
  /\ entry \in {None, CHOOSE o \in Objects : TRUE}
  /\ content = [o \in Objects |-> IF o = entry THEN "old" ELSE "none"]
  /\ linked \in SUBSET ({entry} \ {None}) /\ busy = {}

Unused == {o \in Objects : content[o] = "none"}
\* An object whose name in the directory is gone.
Kept(o) == IF o = None \/ o \in linked THEN content ELSE [content EXCEPT ![o] = "none"]
-----------------------------------------------------------------------------
\* DirectoryLock::open: the directory is opened by its verified parent and verified.
OpenDirectory ==
  /\ step = "start" /\ step' = IF plain THEN "guard" ELSE "failed"
  /\ UNCHANGED <<plain, guard, disk, busy, held, temp>>

\* An entry of its own, made through the handle: in the directory that is open.
MakeGuard ==
  /\ step = "guard"
  /\ \/ guard' = TRUE /\ step' = "recheck"
     \/ UNCHANGED guard /\ step' = "failed"
  /\ UNCHANGED <<plain, disk, busy, held, temp>>

\* Changed: it was verified when it was opened.
RecheckSkipped ==
  /\ step = "recheck" /\ step' = "file" /\ UNCHANGED <<plain, guard, disk, busy, held, temp>>

\* With the guard in it it stays what it is: that is verified now.
Recheck ==
  /\ step = "recheck"
  /\ IF plain THEN step' = "file" /\ UNCHANGED guard ELSE step' = "failed" /\ guard' = FALSE
  /\ UNCHANGED <<plain, disk, busy, held, temp>>

\* open_file: one name only, and nobody who writes it.
OpenFile ==
  /\ step = "file"
  /\ \/ entry \notin linked /\ held' = entry /\ step' = "opened"
     \/ entry # None /\ UNCHANGED held /\ step' = "failed"
  /\ UNCHANGED <<plain, guard, disk, busy, temp>>
-----------------------------------------------------------------------------
\* LockedFile::replace.

\* Changed: the file that is open is written.
CreateInPlace(o) ==
  /\ step = "opened" /\ held # None /\ content' = [content EXCEPT ![held] = "partial"] /\ temp' = held
  /\ step' = "created" /\ UNCHANGED <<plain, guard, entry, linked, busy, held>>

Create(o) ==
  /\ step = "opened"
  /\ \/ o \in Unused /\ temp' = o /\ content' = [content EXCEPT ![o] = "partial"] /\ step' = "created"
     \/ step' = "failed" /\ UNCHANGED <<temp, content>>
  /\ UNCHANGED <<plain, guard, entry, linked, busy, held>>

\* A failure deletes the temporary file by its handle.
Discard == temp' = None /\ step' = "failed" /\ UNCHANGED entry /\ content' = Kept(temp)

Write ==
  /\ step = "created" /\ UNCHANGED <<plain, guard, linked, busy, held>>
  /\ \/ content' = [content EXCEPT ![temp] = "new"] /\ step' = "written" /\ UNCHANGED <<entry, temp>>
     \/ Discard

\* The old file must not be open when its name is given away.
Close ==
  /\ step = "written" /\ held' = None /\ step' = "closed"
  /\ UNCHANGED <<plain, guard, disk, busy, temp>>

\* Changed: the new file is not kept open.
RenameAway ==
  /\ step = "closed" /\ entry \notin busy
  /\ entry' = temp /\ temp' = None /\ content' = Kept(entry) /\ held' = None /\ step' = "replaced"
  /\ UNCHANGED <<plain, guard, linked, busy>>

\* One step of the file system; it fails while a program runs the old file.
Rename ==
  /\ step = "closed" /\ UNCHANGED <<plain, guard, linked, busy>>
  /\ \/ entry \notin busy /\ entry' = temp /\ temp' = None /\ content' = Kept(entry)
        /\ held' = temp /\ step' = "replaced"
     \/ Discard /\ UNCHANGED held

\* LockedFile::delete, which looks at the names of the file again.
Delete ==
  /\ step = "opened" /\ UNCHANGED <<plain, guard, linked, busy, temp>>
  /\ \/ held = None /\ step' = "deleted" /\ UNCHANGED <<entry, content, held>>
     \/ held # None /\ held \notin linked \cup busy /\ entry' = None /\ content' = Kept(held) /\ held' = None /\ step' = "deleted"
     \/ held # None /\ step' = "failed" /\ UNCHANGED <<entry, content, held>>

\* The lock is dropped, or the program is killed: then its temporary file stays.
Leave ==
  /\ step # "start" /\ step' = "start" /\ guard' = FALSE /\ held' = None /\ temp' = None
  /\ UNCHANGED <<plain, disk, busy>>
-----------------------------------------------------------------------------
\* Other programs of the computer.

\* Only an empty directory can be made a link, and back.
Redirect ==
  /\ ~guard /\ entry = None /\ temp = None /\ plain' = ~plain
  /\ UNCHANGED <<guard, disk, busy, step, held, temp>>

Link ==
  /\ entry # None /\ linked' = linked \cup {entry}
  /\ UNCHANGED <<plain, guard, entry, content, busy, step, held, temp>>

Change(o) ==
  /\ o \in ({entry} \cup linked) \ {None, held} /\ o \notin busy /\ content' = [content EXCEPT ![o] = "foreign"]
  /\ UNCHANGED <<plain, guard, entry, linked, busy, step, held, temp>>

Put(o) ==
  /\ entry \notin busy /\ (entry = None \/ entry # held)
  /\ \/ entry' = None /\ entry # None /\ content' = Kept(entry)
     \/ entry = None /\ o \in Unused /\ entry' = o /\ content' = [content EXCEPT ![o] = "foreign"]
  /\ UNCHANGED <<plain, guard, linked, busy, step, held, temp>>

Use ==
  /\ entry # None
  /\ \/ entry \notin busy /\ content[entry] # "partial" /\ busy' = busy \cup {entry}
     \/ entry \in busy /\ busy' = busy \ {entry}
  /\ UNCHANGED <<plain, guard, disk, step, held, temp>>
-----------------------------------------------------------------------------
Next ==
  \/ OpenDirectory \/ MakeGuard \/ Recheck \/ OpenFile
  \/ Write \/ Close \/ Rename \/ Delete \/ Leave \/ Redirect \/ Link \/ Use
  \/ \E o \in Objects : Create(o) \/ Change(o) \/ Put(o)

Spec == Init /\ [][Next]_vars
-----------------------------------------------------------------------------
\* While the installation works on its files the directory is the one it verified,
\* although it was empty and open to everyone between the verification and the lock.
DirectoryStays == step \in {"file", "opened", "created", "written", "closed", "replaced", "deleted"} => plain

\* The program's name never refers to an incomplete file, and from the replacement
\* to the end of the installation it refers to the new one, whoever else writes.
WholeProgram ==
  /\ entry # None => content[entry] # "partial"
  /\ step = "replaced" => content[entry] = "new"

\* A name that someone gave to the old file after it was opened does not make the
\* installation change what that name refers to.
OtherNamesKept == [][\A o \in linked : content'[o] \in {content[o], "foreign"}]_vars
===============================================================================
