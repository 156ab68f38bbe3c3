----------------------------- MODULE AgentSetup -----------------------------
(***************************************************************************)
(* One configuration file of a local agent (local_agent_setup.rs): the     *)
(* one-click configuration and the repair of the installation path         *)
(* (local_agent_setup/installation.rs) both read it, make the new text and *)
(* put it in the place of the old one, while the agent saves its own       *)
(* settings into the same file.  Claude's stdio entry is changed by        *)
(* Claude's own command, whose failure puts the old file back.             *)
(***************************************************************************)
EXTENDS Naturals

CONSTANTS MaxSaves,   \* bound: settings the agent saves
          Absent, Broken

VARIABLES file,    \* Absent, Broken, or [own |-> the agent's settings, fstty |-> the entry]
          temp,    \* writers whose temporary file exists
          work,    \* what each writer is doing
          late     \* writers between the last look and the commit when another wrote

vars == <<file, temp, work, late>>

Writers == {"configure", "repair"}
Wanted  == {"http", "stdio"}       \* what configure writes
Entries == Wanted \cup {"none", "old", "odd"}   \* old: a path of a previous installation
Texts   == [own : 0 .. MaxSaves, fstty : Entries]

Idle == [at |-> "idle", want |-> "none", read |-> Absent]

Init ==
  /\ file \in {Absent} \cup {[own |-> 0, fstty |-> e] : e \in Entries}
  /\ temp = {} /\ late = {}
  /\ work = [w \in Writers |-> Idle]

Goto(w, at) == work' = [work EXCEPT ![w].at = at]

Return(w) == work' = [work EXCEPT ![w] = Idle]

\* inspect: what the page is told of the file.
State(text, want) ==
  CASE text = Absent -> "missing"
    [] text = Broken -> "invalid"
    [] OTHER -> CASE text.fstty = "none" -> "missing"
                  [] text.fstty = "odd"  -> "invalid"
                  [] text.fstty = want   -> "current"
                  [] OTHER               -> "outdated"

Late(done) == late' = (late \cup {w \in Writers : work[w].at = "commit"}) \ done

\* The agent, or the user, saves the file; it may be damaged by hand, and removed.
AgentSaves ==
  /\ \/ file \in Texts /\ file.own < MaxSaves /\ file' \in {[file EXCEPT !.own = @ + 1], Broken}
     \/ State(file, "http") = "invalid" /\ file' = Absent
  /\ Late({})
  /\ UNCHANGED <<temp, work>>
-----------------------------------------------------------------------------
\* configure_target: an invalid file is left alone.
Configure ==
  /\ work["configure"] = Idle
  /\ \E want \in Wanted, cli \in BOOLEAN :
       /\ State(file, want) # "invalid"
       /\ cli => want = "stdio"
       /\ work' = [work EXCEPT !["configure"] = [Idle EXCEPT !.at = IF cli THEN "get" ELSE "read", !.want = want]]
  /\ UNCHANGED <<file, temp, late>>

\* repair_json, repair_toml: only an entry with the path of an old directory.
Repair ==
  /\ work["repair"] = Idle /\ State(file, "stdio") = "outdated" /\ file.fstty = "old"
  /\ work' = [work EXCEPT !["repair"] = [at |-> "write", want |-> "stdio", read |-> file]]
  /\ UNCHANGED <<file, temp, late>>

\* write_json_mcp, write_codex_mcp, write_opencode_mcp.
Read ==
  /\ work["configure"].at = "read"
  /\ IF State(file, work["configure"].want) = "invalid" THEN Return("configure")
     ELSE work' = [work EXCEPT !["configure"].at = "write", !["configure"].read = file]
  /\ UNCHANGED <<file, temp, late>>

Merged(text, want) ==
  [own |-> IF text = Absent THEN 0 ELSE text.own, fstty |-> want]

\* write_if_changed: the file is still the one that was read, and differs.
Check(w) ==
  /\ work[w].at = "write"
  /\ IF file # work[w].read \/ work[w].read = Merged(work[w].read, work[w].want)
     THEN Return(w) ELSE Goto(w, "temp")
  /\ UNCHANGED <<file, temp, late>>

\* atomic_write_checked.
WriteTemp(w) ==
  /\ work[w].at = "temp"
  /\ \/ temp' = temp \cup {w} /\ Goto(w, "recheck")
     \/ Return(w) /\ UNCHANGED temp
  /\ UNCHANGED <<file, late>>

\* Changed: the file is not looked at again before it is replaced.
NoRecheck(w) ==
  work[w].at = "recheck" /\ Goto(w, "commit") /\ UNCHANGED <<file, temp, late>>

Recheck(w) ==
  /\ work[w].at = "recheck"
  /\ IF file = work[w].read THEN Goto(w, "commit") /\ UNCHANGED temp
     ELSE Return(w) /\ temp' = temp \ {w}
  /\ UNCHANGED <<file, late>>

Commit(w) ==
  /\ work[w].at = "commit" /\ temp' = temp \ {w} /\ Return(w)
  /\ \/ file' = Merged(work[w].read, work[w].want) /\ Late({w})
     \/ UNCHANGED file /\ late' = late \ {w}
-----------------------------------------------------------------------------
\* configure_claude_mcp_with: get, remove, add-json, each a process of its own.
Get ==
  /\ work["configure"].at = "get"
  /\ \/ Return("configure")
     \/ /\ ~(file \in Texts /\ file.fstty = work["configure"].want)
        /\ work' = [work EXCEPT !["configure"].read = file, !["configure"].at =
                      IF file \notin Texts \/ file.fstty = "none" THEN "add" ELSE "remove"]
  /\ UNCHANGED <<file, temp, late>>

Remove ==
  /\ work["configure"].at = "remove"
  /\ \/ Return("configure") /\ UNCHANGED file
     \/ file \in Texts /\ file' = [file EXCEPT !.fstty = "none"] /\ Goto("configure", "add")
  /\ Late({}) /\ UNCHANGED temp

Add ==
  /\ work["configure"].at = "add"
  /\ \/ file # Broken /\ file' = Merged(file, work["configure"].want) /\ Return("configure")
     \/ UNCHANGED file /\ IF work["configure"].read = Absent THEN Return("configure")
                          ELSE Goto("configure", "restore")
  /\ Late({}) /\ UNCHANGED temp

\* atomic_write without a check: the snapshot replaces whatever is there.
RestoreSnapshot ==
  /\ work["configure"].at = "restore" /\ Return("configure")
  /\ file' \in {file, work["configure"].read}
  /\ Late({}) /\ UNCHANGED temp

\* The process ends; a temporary file of its stays.
Crash ==
  /\ \E w \in Writers : work[w] # Idle
  /\ work' = [w \in Writers |-> Idle] /\ late' = {}
  /\ UNCHANGED <<file, temp>>

Next ==
  \/ AgentSaves \/ Configure \/ Repair \/ Read \/ Get \/ Remove \/ Add \/ RestoreSnapshot \/ Crash
  \/ \E w \in Writers : Check(w) \/ WriteTemp(w) \/ Recheck(w) \/ Commit(w)

Spec == Init /\ [][Next]_vars
-----------------------------------------------------------------------------
TypeOK ==
  /\ file \in Texts \cup {Absent, Broken} /\ temp \subseteq Writers /\ late \subseteq Writers
  /\ \A w \in Writers : work[w].read \in Texts \cup {Absent, Broken}

\* What the agent saved is not taken back, and what the one writer wrote the
\* other does not replace, however configuration, repair and agent come between
\* each other, but in the instant between the last look and the replacement,
\* and when the failure of Claude's command is undone (atomic_write_checked).
OthersKept ==
  [][late = {} /\ work["configure"].at # "restore" /\ work' # work /\ file \in Texts /\ file' # file =>
       /\ file' \in Texts /\ file'.own = file.own
       /\ work'["repair"] # work["repair"] => file.fstty = "old"]_vars
=============================================================================
