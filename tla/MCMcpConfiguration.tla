------------------------- MODULE MCMcpConfiguration -------------------------
(***************************************************************************)
(* What an agent needs to reach FsTTY: the settings of the server, the     *)
(* configuration file of the agent and the program it starts; and what its *)
(* calls may do then: its rights and the rules for its commands.  They     *)
(* share no state: a behaviour of this instance is one of the component it *)
(* starts with, the others stay in one initial state.                      *)
(***************************************************************************)
EXTENDS McpConfiguration, TLC

CONSTANTS p1, p2, list1, home, work, allow, v1, v2, Absent, Broken, call1

VARIABLES component,
          file, tmp, writer, late,
          copies, partial, launcher, pointer, inUse, prepare, holder,
          enabled, place, rights, structure, saving, rooted, gate, call, could, revoked, edits,
          command

Table(h, w) == (home :> h) @@ (work :> w)
MCChoices   == {Table(allow, None), Table(allow, allow)}
MCRequests  == {[http |-> FALSE, port |-> 1], [http |-> TRUE, port |-> 1], [http |-> TRUE, port |-> 2]}
Sym         == Permutations({p1, p2})

Agent   == INSTANCE AgentSetup WITH MaxSaves <- 2, temp <- tmp, work <- writer
Program == INSTANCE McpRuntime WITH Versions <- {v1, v2}, temp <- partial

\* One member of every class of characters that the code or the shell tells apart;
\* those that quote, that separate words, that redirect and that continue a line are
\* typed at greater length; and the patterns and policies made of them.
Characters == {"a", " ", ";", "&", "|", ">", "<", "\\", "'", "\"", "$", "{", "}", "(", ")", "backquote",
               "#", "\n", "\r", "nbsp", "!", "=", "*"}
MCLengths ==
  Characters :> 3 @@ {"a", ";", "'", "\"", "\\", "$", "{", "}"} :> 5
  @@ {"a", ";", "#", " ", "\r", "nbsp", "\n"} :> 5
  @@ {"a", ";", ">", "<", "&", "|", "\\", " "} :> 5
  @@ {"a", ">", "&", "!", "'", "\\", "\n"} :> 5
UpTo(S, n) == UNION {[1 .. k -> S] : k \in 0 .. n}
MCPatterns == UpTo({"a", "*", "?", "\\"}, 4)
MCValues   == UpTo({"a", "*", "\\", "|"}, 3)
MCPolicies ==
  LET exact(p) == [type |-> "exact", pattern |-> p]
      glob(p)  == [type |-> "glob", pattern |-> p]
  IN [enabled : BOOLEAN, mode : {"allow", "exclude"},
      allow : {<<exact(<<"a">>), glob(<<" ", "a", "*">>)>>}, exclude : {<<glob(<<"*", "=", "*">>)>>}]

Access == INSTANCE McpAccess WITH Groups <- {home, work}, Calls <- {call1}, MaxEdits <- 2, home <- place,
            rows <- rights, lock <- gate
Policy == INSTANCE CommandPolicy WITH Lengths <- MCLengths, Patterns <- MCPatterns,
            Values <- MCValues, Policies <- MCPolicies, MaxRules <- 2, MaxSegments <- 2

agentVars   == <<file, tmp, writer, late>>
programVars == <<copies, partial, launcher, pointer, inUse, prepare, holder>>
accessVars  == <<enabled, place, rights, structure, saving, rooted, gate, call, could, revoked, edits>>
callVars    == <<accessVars, command>>

In(c) == component = c

MCInit ==
  /\ component \in {"settings", "agent", "program", "calls", "rules"}
  /\ Init /\ (In("settings") \/ rows = Table(allow, None))
  /\ Agent!Init /\ (In("agent") \/ file = Absent)
  /\ Program!Init
  /\ Access!Init /\ enabled /\ rooted /\ place = home
  /\ In("calls") \/ rights = [g \in {home, work} |-> None]
  /\ Policy!Init

MCNext ==
  /\ UNCHANGED component
  /\ \/ In("settings") /\ Next /\ UNCHANGED <<agentVars, programVars, callVars>>
     \/ In("agent") /\ Agent!Next /\ UNCHANGED <<vars, programVars, callVars>>
     \/ In("program") /\ Program!Next /\ UNCHANGED <<vars, agentVars, callVars>>
     \/ In("calls") /\ Access!Next /\ UNCHANGED <<vars, agentVars, programVars, command>>
     \/ In("rules") /\ Policy!Next /\ UNCHANGED <<vars, agentVars, programVars, accessVars>>

MCSpec == MCInit /\ [][MCNext]_<<component, vars, agentVars, programVars, callVars>>
-----------------------------------------------------------------------------
\* The commands of the settings page and of the list of sessions leave settings,
\* rights and server in agreement, or as they were (settings_commands.rs), and no
\* writer of an agent's file takes back what another wrote (local_agent_setup.rs).
ConfigurationAgrees == []ServerAgrees /\ CommandsAtomic /\ Agent!OthersKept

\* An agent that was set up can start (local_agent_setup.rs, mcp_runtime.rs): its
\* file has the present address, and names a copy that runs.
AgentUsable == AgentWritten /\ Program!AgentStartable

\* A call works only with a right that it had since it began, on files in the Roots,
\* and gives its lock back (mcp/access.rs, mcp.rs: see McpAccess).  Every command that
\* the shell would run is in a segment of its own that the rules allow, but for the
\* texts that CommandPolicy names, and a pattern matches what it means
\* (mcp_command_policy.rs, shell.rs).
CallsChecked ==
  /\ In("calls") => (Access!RevokedRefused /\ Access!RootsRechecked /\ Access!LockReturned)
  /\ In("rules") => (Policy!CommandsSeen /\ Policy!GlobAgrees)

-----------------------------------------------------------------------------
\* Not in the configuration, for they do not hold: the promise that saved rights stay
\* as they were saved (src/README.md:47), and that quotes, escapes, comments and
\* redirections are never split wrongly (shell.rs:570).
RevokedStays     == Access!RevokedStays
EveryCommandSeen == Policy!Seen(command)
=============================================================================
